---------------------------- MODULE Spec2Model ----------------------------
(***************************************************************************)
(* A model of the reporting scripts of this repository (Google Apps        *)
(* Script): the weekly report (src/weeklyReport.js, and its count-only     *)
(* predecessor src/unnamed/part_001) and the daily LINE notification       *)
(* (src/dailyLineNotify.js).                                               *)
(*                                                                         *)
(* Instants are integer milliseconds of local time counted from 00:00 of   *)
(* a Monday (the script's time zone, JST, has no daylight saving, so a     *)
(* calendar day is DayMs milliseconds).  JavaScript numbers are IEEE-754   *)
(* doubles; the hours arithmetic is modelled bit-exactly on the range of   *)
(* values the model uses (see "Doubles" below).                            *)
(***************************************************************************)
EXTENDS Integers, Sequences, FiniteSets, TLC

VARIABLES
    db,         \* sheet 'DB': what getDataRange().getValues() returns,
                \* a sequence of rows with the header row first
    now,        \* the instant `new Date()` gives the running handler
    pc,         \* which handler has run: "idle", "weekly", "weeklyCount",
                \* "daily"
    weekly,     \* the locals of sendWeeklyReport
    daily,      \* the locals of dailyLineNotify
    env,        \* the spreadsheet's sheet names and the script properties
    procs       \* the executions in progress, step by step: for each
                \* execution its function, position, locals and effects

vars == <<db, now, pc, weekly, daily, env, procs>>

-----------------------------------------------------------------------------
(* Bounds of the model *)

\* the sheet holds at most MaxRows data rows (header excluded)
MaxRows == 3

\* the reference instants of SpecWindow lie on days FirstRefDay..MaxRefDay
MaxRefDay == 17

\* a user installs triggers by hand while the project has fewer than MaxTriggers
MaxTriggers == 3

-----------------------------------------------------------------------------
(* Doubles.                                                                *)
(* A double is [neg, mag]: mag is a 4-limb natural number N (base          *)
(* LimbBase, least significant limb first) and the value is                *)
(* (-1)^neg * N * 2^-68.  Every double d with 2^-15 <= |d| < 2^9, and      *)
(* every sum or difference of two such doubles, is of this form.  An       *)
(* operation computes the exact result and rounds it to 53 significant     *)
(* bits, ties to even, as IEEE-754 does.                                   *)

LimbBase == 4096 * 4096            \* 2^24

RECURSIVE Pow2(_)
Pow2(k) == IF k = 0 THEN 1 ELSE 2 * Pow2(k - 1)

RECURSIVE BitsOf(_)
BitsOf(x) == IF x = 0 THEN 0 ELSE 1 + BitsOf(x \div 2)

MagZero == <<0, 0, 0, 0>>

MagAdd(a, b) ==
    LET s1 == a[1] + b[1]
        s2 == a[2] + b[2] + (s1 \div LimbBase)
        s3 == a[3] + b[3] + (s2 \div LimbBase)
        s4 == a[4] + b[4] + (s3 \div LimbBase)
    IN  <<s1 % LimbBase, s2 % LimbBase, s3 % LimbBase, s4>>

\* a - b for a >= b
MagSub(a, b) ==
    LET d1 == a[1] - b[1]
        d2 == a[2] - b[2] - (IF d1 < 0 THEN 1 ELSE 0)
        d3 == a[3] - b[3] - (IF d2 < 0 THEN 1 ELSE 0)
        d4 == a[4] - b[4] - (IF d3 < 0 THEN 1 ELSE 0)
    IN  <<d1 % LimbBase, d2 % LimbBase, d3 % LimbBase, d4>>

MagLt(a, b) ==
    \/ a[4] < b[4]
    \/ a[4] = b[4] /\ a[3] < b[3]
    \/ a[4] = b[4] /\ a[3] = b[3] /\ a[2] < b[2]
    \/ a[4] = b[4] /\ a[3] = b[3] /\ a[2] = b[2] /\ a[1] < b[1]

\* a * k for a small natural k
MagMulSmall(a, k) ==
    LET p1 == a[1] * k
        p2 == a[2] * k + (p1 \div LimbBase)
        p3 == a[3] * k + (p2 \div LimbBase)
        p4 == a[4] * k + (p3 \div LimbBase)
    IN  <<p1 % LimbBase, p2 % LimbBase, p3 % LimbBase, p4>>

\* quotient and remainder of a by a small natural k
MagDivSmall(a, k) ==
    LET t4 == a[4]
        t3 == (t4 % k) * LimbBase + a[3]
        t2 == (t3 % k) * LimbBase + a[2]
        t1 == (t2 % k) * LimbBase + a[1]
    IN  [q |-> <<t1 \div k, t2 \div k, t3 \div k, t4 \div k>>, r |-> t1 % k]

BitLen(a) ==
    IF a[4] # 0 THEN 72 + BitsOf(a[4])
    ELSE IF a[3] # 0 THEN 48 + BitsOf(a[3])
    ELSE IF a[2] # 0 THEN 24 + BitsOf(a[2])
    ELSE BitsOf(a[1])

\* a (plus a nonzero fraction when sticky) rounded to 53 significant bits,
\* ties to even; at most 24 bits are dropped
Round53(a, sticky) ==
    LET c == BitLen(a) - 53
    IN  IF c <= 0 THEN a
        ELSE LET p    == Pow2(c)
                 low  == a[1] % p
                 odd  == IF c < 24 THEN (a[1] \div p) % 2 = 1 ELSE a[2] % 2 = 1
                 up   == \/ 2 * low > p
                         \/ 2 * low = p /\ (sticky \/ odd)
                 cut  == <<a[1] - low, a[2], a[3], a[4]>>
                 unit == IF c < 24 THEN <<p, 0, 0, 0>> ELSE <<0, 1, 0, 0>>
             IN  IF up THEN MagAdd(cut, unit) ELSE cut

FZero == [neg |-> FALSE, mag |-> MagZero]

\* the double of a natural number n < 512
FromInt(n) ==
    [neg |-> FALSE,
     mag |-> <<0, 0, (n * Pow2(20)) % LimbBase, (n * Pow2(20)) \div LimbBase>>]

FNeg(x) == IF x.mag = MagZero THEN x ELSE [x EXCEPT !.neg = ~x.neg]

\* x + y
FAdd(x, y) ==
    IF x.neg = y.neg
    THEN [neg |-> x.neg, mag |-> Round53(MagAdd(x.mag, y.mag), FALSE)]
    ELSE IF x.mag = y.mag THEN FZero
    ELSE IF MagLt(x.mag, y.mag)
         THEN [neg |-> y.neg, mag |-> Round53(MagSub(y.mag, x.mag), FALSE)]
         ELSE [neg |-> x.neg, mag |-> Round53(MagSub(x.mag, y.mag), FALSE)]

\* x - y
FSub(x, y) == FAdd(x, FNeg(y))

\* x * k and x / k for a small natural k
FMulSmall(x, k) == [neg |-> x.neg, mag |-> Round53(MagMulSmall(x.mag, k), FALSE)]

FDivSmall(x, k) ==
    LET d == MagDivSmall(x.mag, k)
    IN  [neg |-> x.neg, mag |-> Round53(d.q, d.r # 0)]

\* x < y, x > 0, x < 0
FLt(x, y) ==
    IF x.neg # y.neg THEN x.neg
    ELSE IF x.neg THEN MagLt(y.mag, x.mag) ELSE MagLt(x.mag, y.mag)

FPos(x) == ~x.neg /\ x.mag # MagZero

FNegative(x) == x.neg /\ x.mag # MagZero

-----------------------------------------------------------------------------
(* Dates: local calendar arithmetic of the JavaScript Date object *)

DayMs == 24 * 60 * 60 * 1000

\* the calendar date (getFullYear, getMonth, getDate) of an instant, as a
\* day number; day 0 is a Monday
DayOf(t) == t \div DayMs

\* Date.prototype.getDay: 0 (Sunday) .. 6 (Saturday)
getDay(t) == (DayOf(t) + 1) % 7

\* new Date(year, month, date, h, mi, s, ms) for the calendar date `day`;
\* a date field outside its month is carried over, so `day` may be any
\* day number
MkDate(day, h, mi, s, ms) == day * DayMs + ((h * 60 + mi) * 60 + s) * 1000 + ms

\* the value of a date cell: an instant, or a text that does not parse.
\* new Date(cell) is the instant, or an Invalid Date, which compares false
\* to everything
DateCell(t) == [kind |-> "date", t |-> t]
BadDateCell == [kind |-> "text", t |-> 0]

isNaNDate(cell) == cell.kind # "date"

\* eventDate < end, where the code has <=
DateBefore(cell, t) == cell.kind = "date" /\ cell.t < t

DateGe(cell, t) == cell.kind = "date" /\ cell.t >= t
DateLe(cell, t) == cell.kind = "date" /\ cell.t <= t

\* getWeeklyDateRange without the case of a Sunday (diffToMon = 1 - day)
getWeeklyDateRangeNoSunday(refDate, offsetWeeks) ==
    LET day       == getDay(refDate)
        diffToMon == 1 - day
        start     == MkDate(DayOf(refDate) + diffToMon + offsetWeeks * 7, 0, 0, 0, 0)
        end       == MkDate(DayOf(start) + 6, 23, 59, 59, 999)
    IN  [start |-> start, end |-> end]

\* getWeeklyDateRange with the end at 23:59:59 without the milliseconds
getWeeklyDateRangeWholeSeconds(refDate, offsetWeeks) ==
    LET day       == getDay(refDate)
        diffToMon == IF day = 0 THEN -6 ELSE 1 - day
        start     == MkDate(DayOf(refDate) + diffToMon + offsetWeeks * 7, 0, 0, 0, 0)
        end       == MkDate(DayOf(start) + 6, 23, 59, 59, 0)
    IN  [start |-> start, end |-> end]

\* src/weeklyReport.js:48-57 (the same in src/unnamed/part_001:52-61)
getWeeklyDateRange(refDate, offsetWeeks) ==
    LET day       == getDay(refDate)
        diffToMon == IF day = 0 THEN -6 ELSE 1 - day
        start     == MkDate(DayOf(refDate) + diffToMon + offsetWeeks * 7, 0, 0, 0, 0)
        end       == MkDate(DayOf(start) + 6, 23, 59, 59, 999)
    IN  [start |-> start, end |-> end]

-----------------------------------------------------------------------------
(* Titles and the category pattern.                                        *)
(* A text is a sequence of characters; OpenMark and CloseMark stand for    *)
(* the brackets U+3010 and U+3011, LineFeed for a line terminator and      *)
(* Blank for a space.                                                      *)

OpenMark == "["
CloseMark == "]"
LineFeed == "LF"
Blank == " "

\* the least element of a nonempty set of integers
MinOf(S) == CHOOSE x \in S : \A y \in S : x <= y

\* the position of the first CloseMark after position i, or 0
CloseAfter(title, i) ==
    LET js == {j \in (i + 1)..Len(title) : title[j] = CloseMark}
    IN  IF js = {} THEN 0 ELSE MinOf(js)

\* whether the pattern matches with its OpenMark at position i: the lazy
\* group (.*?) runs to the next CloseMark, and `.` matches no line terminator
MatchAt(title, i) ==
    /\ title[i] = OpenMark
    /\ CloseAfter(title, i) # 0
    /\ \A k \in (i + 1)..(CloseAfter(title, i) - 1) : title[k] # LineFeed

\* title.match(/【(.*?)】/): the leftmost match; cat is match[1]
TitleMatch(title) ==
    LET starts == {i \in 1..Len(title) : MatchAt(title, i)}
    IN  IF starts = {} THEN [found |-> FALSE, cat |-> <<>>]
        ELSE LET i == MinOf(starts)
             IN  [found |-> TRUE, cat |-> SubSeq(title, i + 1, CloseAfter(title, i) - 1)]

\* String.prototype.trim: leading and trailing white space (blanks and
\* line terminators) removed
IsSpace(ch) == ch = Blank \/ ch = LineFeed

RECURSIVE Trim(_)
Trim(s) ==
    IF s = <<>> THEN s
    ELSE IF IsSpace(s[1]) THEN Trim(Tail(s))
    ELSE IF IsSpace(s[Len(s)]) THEN Trim(SubSeq(s, 1, Len(s) - 1))
    ELSE s

-----------------------------------------------------------------------------
(* Durations *)

\* the value of a duration cell: a time of day (a Date object), a number
\* (a fraction of a day, the double nearest p/q) or a text
TimeCell(h, mi, sec) == [kind |-> "time", h |-> h, mi |-> mi, s |-> sec, num |-> FZero]
NumberCell(p, q) == [kind |-> "number", h |-> 0, mi |-> 0, s |-> 0, num |-> FDivSmall(FromInt(p), q)]
TextCell == [kind |-> "text", h |-> 0, mi |-> 0, s |-> 0, num |-> FZero]

\* a number below 0: the double nearest -p/q
NegativeNumberCell(p, q) == [NumberCell(p, q) EXCEPT !.num = FNeg(@)]

\* the normalization with a number taken as hours, not as a fraction of a day
DurationHoursUnscaled(durationRaw) ==
    IF durationRaw.kind = "time"
    THEN FAdd(FromInt(durationRaw.h), FDivSmall(FromInt(durationRaw.mi), 60))
    ELSE IF durationRaw.kind = "number"
    THEN durationRaw.num
    ELSE FZero

\* src/weeklyReport.js:77-82, src/dailyLineNotify.js:107-109
DurationHours(durationRaw) ==
    IF durationRaw.kind = "time"
    THEN FAdd(FromInt(durationRaw.h), FDivSmall(FromInt(durationRaw.mi), 60))
    ELSE IF durationRaw.kind = "number"
    THEN FMulSmall(durationRaw.num, 24)
    ELSE FZero

-----------------------------------------------------------------------------
(* Objects used as maps, and Array.prototype.sort.                         *)
(* A statistics object is the sequence of its entries in insertion order,  *)
(* the order Object.keys enumerates (category names are not integer-like). *)

HasKey(stats, cat) == \E i \in 1..Len(stats) : stats[i].category = cat

IndexOfKey(stats, cat) == CHOOSE i \in 1..Len(stats) : stats[i].category = cat

\* Object.keys
Keys(stats) == [i \in 1..Len(stats) |-> stats[i].category]

\* [...new Set([...Object.keys(a), ...Object.keys(b)])]: the keys of a, then
\* the keys of b that a does not have
UnionKeys(a, b) ==
    LET NotInA(cat) == ~HasKey(a, cat)
    IN  Keys(a) \o SelectSeq(Keys(b), NotInA)

\* Array.prototype.sort with a comparator, which is stable: after[<<i, j>>]
\* says that the comparator puts s[i] after s[j] (compare(s[i], s[j]) > 0)
RECURSIVE InsertSorted(_, _, _)
InsertSorted(idx, x, after) ==
    IF idx = <<>> THEN <<x>>
    ELSE IF after[<<Head(idx), x>>] THEN <<x>> \o idx
    ELSE <<Head(idx)>> \o InsertSorted(Tail(idx), x, after)

RECURSIVE SortIndices(_, _)
SortIndices(n, after) ==
    IF n = 0 THEN <<>> ELSE InsertSorted(SortIndices(n - 1, after), n, after)

\* a sort whose comparator has its operands exchanged
ArraySortAscending(s, after) ==
    LET p == SortIndices(Len(s), [q \in DOMAIN after |-> after[<<q[2], q[1]>>]])
    IN  [k \in 1..Len(s) |-> s[p[k]]]

ArraySort(s, after) ==
    LET p == SortIndices(Len(s), after)
    IN  [k \in 1..Len(s) |-> s[p[k]]]

-----------------------------------------------------------------------------
(* The weekly report: src/weeklyReport.js *)

\* row.length: getValues gives every row the width of the data range, 6
\* columns (A..F) unless the sheet is narrower
RowLength(row) == IF "len" \in DOMAIN row THEN row.len ELSE 6

\* lines 84-88 with the duration assigned (=) where the code adds (+=)
AddWeeklyStatOverwriting(stats, category, durationHours) ==
    LET s1 == IF HasKey(stats, category) THEN stats
              ELSE Append(stats, [category |-> category, count |-> 0, duration |-> FZero])
        i  == IndexOfKey(s1, category)
    IN  [s1 EXCEPT ![i] = [category |-> category,
                           count    |-> s1[i].count + 1,
                           duration |-> durationHours]]

\* lines 84-88: stats[category] is created on first use, then accumulated
AddWeeklyStat(stats, category, durationHours) ==
    LET s1 == IF HasKey(stats, category) THEN stats
              ELSE Append(stats, [category |-> category, count |-> 0, duration |-> FZero])
        i  == IndexOfKey(s1, category)
    IN  [s1 EXCEPT ![i] = [category |-> category,
                           count    |-> s1[i].count + 1,
                           duration |-> FAdd(s1[i].duration, durationHours)]]

\* lines 67-90 with the loop left (break) at the first row that is not
\* counted, where the code goes on to the next row
RECURSIVE WeeklyStatsLoopBreaking(_, _, _, _, _)
WeeklyStatsLoopBreaking(data, i, start, end, stats) ==
    IF i > Len(data) THEN stats
    ELSE LET row   == data[i]
             match == TitleMatch(row.title)
         IN  IF match.found /\ DateGe(row.date, start) /\ DateLe(row.date, end)
             THEN WeeklyStatsLoopBreaking(data, i + 1, start, end,
                      AddWeeklyStat(stats, match.cat, DurationHours(row.dur)))
             ELSE stats

\* lines 67-90 with a row whose date does not parse counted, without hours,
\* where the code leaves it out
RECURSIVE WeeklyStatsLoopCountingUndated(_, _, _, _, _)
WeeklyStatsLoopCountingUndated(data, i, start, end, stats) ==
    IF i > Len(data) THEN stats
    ELSE LET row   == data[i]
             match == TitleMatch(row.title)
         IN  IF match.found /\ DateGe(row.date, start) /\ DateLe(row.date, end)
             THEN WeeklyStatsLoopCountingUndated(data, i + 1, start, end,
                      AddWeeklyStat(stats, match.cat, DurationHours(row.dur)))
             ELSE IF match.found /\ isNaNDate(row.date)
             THEN WeeklyStatsLoopCountingUndated(data, i + 1, start, end,
                      AddWeeklyStat(stats, match.cat, FZero))
             ELSE WeeklyStatsLoopCountingUndated(data, i + 1, start, end, stats)

\* lines 67-90: the loop over data[i], from the row after the header
RECURSIVE WeeklyStatsLoop(_, _, _, _, _)
WeeklyStatsLoop(data, i, start, end, stats) ==
    IF i > Len(data) THEN stats
    ELSE LET row   == data[i]
             match == TitleMatch(row.title)
         IN  IF RowLength(row) < 6
             THEN WeeklyStatsLoop(data, i + 1, start, end, stats)
             ELSE IF match.found /\ DateGe(row.date, start) /\ DateLe(row.date, end)
             THEN WeeklyStatsLoop(data, i + 1, start, end,
                      AddWeeklyStat(stats, match.cat, DurationHours(row.dur)))
             ELSE WeeklyStatsLoop(data, i + 1, start, end, stats)

\* lines 63-92
aggregateWeeklyStats(sheet, start, end) == WeeklyStatsLoop(sheet, 2, start, end, <<>>)

\* lines 102-112: one row of the comparison
WeeklyRow(current, previous, cat) ==
    LET none == [category |-> cat, count |-> 0, duration |-> FZero]
        cur  == IF HasKey(current, cat) THEN current[IndexOfKey(current, cat)] ELSE none
        pre  == IF HasKey(previous, cat) THEN previous[IndexOfKey(previous, cat)] ELSE none
    IN  [category         |-> cat,
         currentCount     |-> cur.count,
         currentDuration  |-> cur.duration,
         previousCount    |-> pre.count,
         previousDuration |-> pre.duration,
         diffCount        |-> cur.count - pre.count,
         diffDuration     |-> FSub(cur.duration, pre.duration)]

\* compareWeeklyStats enumerating Object.keys(current) alone
compareWeeklyStatsCurrentOnly(current, previous) ==
    LET comparison == [k \in 1..Len(current) |->
                          WeeklyRow(current, previous, current[k].category)]
        after      == [p \in (1..Len(comparison)) \X (1..Len(comparison)) |->
                          FPos(FSub(comparison[p[2]].currentDuration,
                                    comparison[p[1]].currentDuration))]
    IN  ArraySort(comparison, after)

\* lines 97-116
compareWeeklyStats(current, previous) ==
    LET allCategories == UnionKeys(current, previous)
        comparison    == [k \in 1..Len(allCategories) |->
                             WeeklyRow(current, previous, allCategories[k])]
        after         == [p \in (1..Len(comparison)) \X (1..Len(comparison)) |->
                             FPos(FSub(comparison[p[2]].currentDuration,
                                       comparison[p[1]].currentDuration))]
    IN  ArraySort(comparison, after)

-----------------------------------------------------------------------------
(* The count-only weekly report: src/unnamed/part_001 *)

\* lines 76-84
RECURSIVE CategoryStatsLoop(_, _, _, _, _)
CategoryStatsLoop(data, i, start, end, stats) ==
    IF i > Len(data) THEN stats
    ELSE LET row      == data[i]
             category == Trim(row.cat)
         IN  IF category # <<>> /\ DateGe(row.date, start) /\ DateLe(row.date, end)
             THEN CategoryStatsLoop(data, i + 1, start, end,
                      IF HasKey(stats, category)
                      THEN [stats EXCEPT ![IndexOfKey(stats, category)] =
                               [category |-> category, count |-> @.count + 1]]
                      ELSE Append(stats, [category |-> category, count |-> 1]))
             ELSE CategoryStatsLoop(data, i + 1, start, end, stats)

\* lines 71-86
aggregateCategoryStats(sheet, start, end) == CategoryStatsLoop(sheet, 2, start, end, <<>>)

\* lines 92-109
compareCategoryStats(current, previous) ==
    LET allCategories == UnionKeys(current, previous)
        Val(stats, cat) == IF HasKey(stats, cat) THEN stats[IndexOfKey(stats, cat)].count ELSE 0
        comparison    == [k \in 1..Len(allCategories) |->
                             [category |-> allCategories[k],
                              current  |-> Val(current, allCategories[k]),
                              previous |-> Val(previous, allCategories[k]),
                              diff     |-> Val(current, allCategories[k])
                                           - Val(previous, allCategories[k])]]
        after         == [p \in (1..Len(comparison)) \X (1..Len(comparison)) |->
                             comparison[p[2]].current - comparison[p[1]].current > 0]
    IN  ArraySort(comparison, after)

-----------------------------------------------------------------------------
(* The daily notification: src/dailyLineNotify.js *)

\* lines 101-113
RECURSIVE DailyStatsLoop(_, _, _)
DailyStatsLoop(events, i, stats) ==
    IF i > Len(events) THEN stats
    ELSE LET ev    == events[i]
             match == TitleMatch(ev.title)
         IN  IF match.found
             THEN LET s1 == IF HasKey(stats, match.cat) THEN stats
                            ELSE Append(stats, [category |-> match.cat, hours |-> FZero])
                      k  == IndexOfKey(s1, match.cat)
                  IN  DailyStatsLoop(events, i + 1,
                          [s1 EXCEPT ![k] = [category |-> match.cat,
                                             hours |-> FAdd(s1[k].hours,
                                                            DurationHours(ev.durationSerial))]])
             ELSE DailyStatsLoop(events, i + 1, stats)

\* lines 99-115
aggregateDailyEvents(events) == DailyStatsLoop(events, 1, <<>>)

\* the literal 0.1 of line 128
OneTenth == FDivSmall(FromInt(1), 10)

\* lines 124-134: the row of one category, and whether it is pushed
DailyRow(yesterday, week, cat) ==
    LET yHours    == IF HasKey(yesterday, cat)
                     THEN yesterday[IndexOfKey(yesterday, cat)].hours ELSE FZero
        wAvgHours == IF HasKey(week, cat)
                     THEN FDivSmall(week[IndexOfKey(week, cat)].hours, 7) ELSE FZero
    IN  [category |-> cat, hours |-> yHours, avg |-> wAvgHours,
         diff |-> FSub(yHours, wAvgHours)]

\* the test of line 128 with the average compared to 0
DailyRowKeptAnyAverage(row) == FPos(row.hours) \/ FPos(row.avg)

DailyRowKept(row) == FPos(row.hours) \/ FLt(OneTenth, row.avg)

\* lines 120-138
buildDailyAnalysis(yesterday, week) ==
    LET allCats == UnionKeys(yesterday, week)
        rows    == [k \in 1..Len(allCats) |-> DailyRow(yesterday, week, allCats[k])]
        res     == SelectSeq(rows, DailyRowKept)
        after   == [p \in (1..Len(res)) \X (1..Len(res)) |->
                       FPos(FSub(res[p[2]].hours, res[p[1]].hours))]
    IN  ArraySort(res, after)

\* lines 37-58: the rows of one bucket, as the objects pushed
EventOf(row) == [title |-> row.title, durationSerial |-> row.dur]

RECURSIVE ExtractLoop(_, _, _, _, _, _)
ExtractLoop(allRows, i, yesterday, rangeStart, weekEnd, acc) ==
    IF i > Len(allRows) THEN acc
    ELSE LET row       == allRows[i]
             eventDate == row.date
         IN  IF RowLength(row) < 6 \/ isNaNDate(eventDate)
             THEN ExtractLoop(allRows, i + 1, yesterday, rangeStart, weekEnd, acc)
             ELSE IF DayOf(eventDate.t) = DayOf(yesterday)
             THEN ExtractLoop(allRows, i + 1, yesterday, rangeStart, weekEnd,
                      [acc EXCEPT !.yesterdayEvents = Append(@, EventOf(row))])
             ELSE IF DateGe(eventDate, rangeStart) /\ DateLe(eventDate, weekEnd)
             THEN ExtractLoop(allRows, i + 1, yesterday, rangeStart, weekEnd,
                      [acc EXCEPT !.pastWeekEvents = Append(@, EventOf(row))])
             ELSE ExtractLoop(allRows, i + 1, yesterday, rangeStart, weekEnd, acc)

\* the locals of a run that has not assigned them
NoDaily ==
    [exit |-> "none", yesterday |-> 0, weekStart |-> 0, weekEnd |-> 0,
     rangeStart |-> 0, rangeEnd |-> 0,
     yesterdayEvents |-> <<>>, pastWeekEvents |-> <<>>,
     statsYesterday |-> <<>>, statsWeek |-> <<>>, analysisData |-> <<>>]

\* lines 11-94, up to the analysis data of line 70: the locals when the
\* handler returns, and the return it took
dailyLineNotifyLocals(allRows, n) ==
    LET yesterday  == MkDate(DayOf(n) - 1, 0, 0, 0, 0)
        weekStart  == MkDate(DayOf(yesterday) - 7, 0, 0, 0, 0)
        weekEnd    == MkDate(DayOf(yesterday) - 1, 0, 0, 0, 0)
        rangeStart == MkDate(DayOf(weekStart), 0, 0, 0, 0)
        rangeEnd   == MkDate(DayOf(yesterday), 23, 59, 59, 999)
        dates      == [NoDaily EXCEPT !.yesterday = yesterday,
                                      !.weekStart = weekStart, !.weekEnd = weekEnd]
        ranges     == [dates EXCEPT !.rangeStart = rangeStart, !.rangeEnd = rangeEnd]
        extracted  == ExtractLoop(allRows, 2, yesterday, rangeStart, weekEnd, ranges)
        statsYesterday == aggregateDailyEvents(extracted.yesterdayEvents)
        statsWeek  == aggregateDailyEvents(extracted.pastWeekEvents)
    IN  IF Len(allRows) <= 1 THEN [dates EXCEPT !.exit = "noRows"]
        ELSE IF Len(extracted.yesterdayEvents) = 0
        THEN [extracted EXCEPT !.exit = "noYesterday"]
        ELSE [extracted EXCEPT !.exit = "analysed",
                               !.statsYesterday = statsYesterday,
                               !.statsWeek = statsWeek,
                               !.analysisData = buildDailyAnalysis(statsYesterday, statsWeek)]

-----------------------------------------------------------------------------
(* The sheet *)

Row(title, dur, cat, date) == [title |-> title, dur |-> dur, cat |-> cat, date |-> date]

\* the header row: texts
HeaderRow == Row(<<"T">>, TextCell, <<"C">>, BadDateCell)

\* The rows a sheet is filled from.  Relative to the clock instants below,
\* whose week is the days 14..20: days 7..13 are the week before, day 15 is
\* the day before the first instant.
SheetRows ==
    { Row(<<OpenMark, "A", CloseMark, "a">>, TimeCell(0, 6, 0), <<"A">>,
          DateCell(MkDate(15, 0, 0, 0, 0))),
      Row(<<OpenMark, "A", CloseMark, "b">>, TimeCell(0, 12, 0), <<"A">>,
          DateCell(MkDate(15, 23, 59, 59, 999))),
      Row(<<OpenMark, "A", CloseMark, "f", OpenMark, "B", CloseMark>>, TimeCell(0, 18, 0), <<"A">>,
          DateCell(MkDate(15, 12, 0, 0, 0))),
      Row(<<OpenMark, "B", CloseMark>>, NumberCell(1, 8), <<"B", Blank>>,
          DateCell(MkDate(14, 0, 0, 0, 0))),
      Row(<<OpenMark, "B", CloseMark>>, NumberCell(1, 48), <<"B">>,
          DateCell(MkDate(13, 23, 59, 59, 999))),
      Row(<<OpenMark, "C", CloseMark>>, TimeCell(0, 30, 0), <<"C">>,
          DateCell(MkDate(20, 23, 59, 59, 999))),
      Row(<<OpenMark, "C", CloseMark>>, NumberCell(1, 24), <<"C">>,
          DateCell(MkDate(21, 0, 0, 0, 0))),
      Row(<<OpenMark, "C", CloseMark>>, TimeCell(1, 30, 0), <<"C">>,
          DateCell(MkDate(14, 12, 0, 0, 0))),
      Row(<<OpenMark, "A", LineFeed, "B", CloseMark, OpenMark, "C", CloseMark>>, TextCell,
          <<"A", LineFeed, "B">>, DateCell(MkDate(15, 12, 0, 0, 0))),
      Row(<<CloseMark, "x", OpenMark, "A">>, TimeCell(1, 0, 0), <<>>,
          DateCell(MkDate(15, 12, 0, 0, 0))) }

\* the rows of SpecSum: those of day 15 (this week, the day before the
\* first instant) and of day 13 (the week before)
SummedRows == {r \in SheetRows : DayOf(r.date.t) \in {13, 15}}

\* The rows of SpecCells, one per shape of a record: the duration a time of
\* day (with and without seconds), a number, a number below 0, a text; the
\* date cell a text.  They are of day 15, but for one of day 13
CellRows ==
    { Row(<<OpenMark, "A", CloseMark>>, TimeCell(1, 30, 0), <<"A">>,
          DateCell(MkDate(15, 0, 0, 0, 0))),
      Row(<<OpenMark, "A", CloseMark>>, TimeCell(0, 20, 45), <<"A">>,
          DateCell(MkDate(15, 12, 0, 0, 0))),
      Row(<<OpenMark, "B", CloseMark>>, NumberCell(1, 8), <<"B">>,
          DateCell(MkDate(15, 12, 0, 0, 0))),
      Row(<<OpenMark, "B", CloseMark>>, NegativeNumberCell(1, 8), <<"B">>,
          DateCell(MkDate(15, 12, 0, 0, 0))),
      Row(<<OpenMark, "A", CloseMark>>, TextCell, <<"A">>,
          DateCell(MkDate(15, 12, 0, 0, 0))),
      Row(<<OpenMark, "A", CloseMark>>, TimeCell(23, 59, 59), <<"A">>,
          DateCell(MkDate(13, 12, 0, 0, 0))),
      Row(<<OpenMark, "A", CloseMark>>, TimeCell(1, 0, 0), <<"A">>, BadDateCell) }

\* a row of a sheet of 5 columns (A..E): row[5] is undefined, and
\* new Date(undefined) is an Invalid Date
NarrowRow(row) ==
    [title |-> row.title, dur |-> row.dur, cat |-> row.cat, date |-> BadDateCell, len |-> 5]

\* the sheets of SpecCells: a header and one or two rows, of 6 columns or
\* of 5 (getValues gives every row of a sheet the same width)
CellSheets ==
    LET wide == {<<HeaderRow, r>> : r \in CellRows}
                    \cup {<<HeaderRow, r, s>> : r \in CellRows, s \in CellRows}
    IN  wide \cup {[i \in 1..Len(sh) |-> IF i = 1 THEN HeaderRow ELSE NarrowRow(sh[i])] :
                      sh \in wide}

\* the instants at which handlers run: a Wednesday at 05:00 (the hour of the
\* daily trigger) and the Sunday of that week at 09:00 (the weekly trigger)
RunInstants == {MkDate(16, 5, 0, 0, 0), MkDate(20, 9, 0, 0, 0)}

\* the reference instants of SpecWindow
FirstRefDay == 7

TimesOfDay == {<<0, 0, 0, 0>>, <<0, 0, 0, 1>>, <<5, 0, 0, 0>>, <<9, 0, 0, 0>>,
               <<12, 0, 0, 0>>, <<23, 59, 59, 999>>}

RefInstants ==
    {MkDate(d, t[1], t[2], t[3], t[4]) : d \in FirstRefDay..MaxRefDay, t \in TimesOfDay}

-----------------------------------------------------------------------------
(* The handlers *)

NoRange == [start |-> 0, end |-> 0]

NoWeekly ==
    [thisWeekRange |-> NoRange, lastWeekRange |-> NoRange,
     thisWeekStats |-> <<>>, lastWeekStats |-> <<>>, comparison |-> <<>>]

\* src/weeklyReport.js:9-43, up to the comparison of line 24
sendWeeklyReportLocals(sheet, n) ==
    LET thisWeekRange == getWeeklyDateRange(n, 0)
        lastWeekRange == getWeeklyDateRange(n, -1)
        thisWeekStats == aggregateWeeklyStats(sheet, thisWeekRange.start, thisWeekRange.end)
        lastWeekStats == aggregateWeeklyStats(sheet, lastWeekRange.start, lastWeekRange.end)
    IN  [thisWeekRange |-> thisWeekRange, lastWeekRange |-> lastWeekRange,
         thisWeekStats |-> thisWeekStats, lastWeekStats |-> lastWeekStats,
         comparison    |-> compareWeeklyStats(thisWeekStats, lastWeekStats)]

\* src/unnamed/part_001:10-43, up to the comparison of line 25
sendCountReportLocals(sheet, n) ==
    LET thisWeekRange == getWeeklyDateRange(n, 0)
        lastWeekRange == getWeeklyDateRange(n, -1)
        thisWeekStats == aggregateCategoryStats(sheet, thisWeekRange.start, thisWeekRange.end)
        lastWeekStats == aggregateCategoryStats(sheet, lastWeekRange.start, lastWeekRange.end)
    IN  [thisWeekRange |-> thisWeekRange, lastWeekRange |-> lastWeekRange,
         thisWeekStats |-> thisWeekStats, lastWeekStats |-> lastWeekStats,
         comparison    |-> compareCategoryStats(thisWeekStats, lastWeekStats)]

-----------------------------------------------------------------------------
(* The second sendWeeklyReport of src/weeklyReport.js (lines 317-603), and  *)
(* the chart data of both copies.                                           *)

\* x / 3600: the quotient by 60 * 60 taken in two exact integer divisions,
\* rounded once
FDiv3600(x) ==
    LET d1 == MagDivSmall(x.mag, 60)
        d2 == MagDivSmall(d1.q, 60)
    IN  [neg |-> x.neg, mag |-> Round53(d2.q, d1.r # 0 \/ d2.r # 0)]

\* lines 393-395: getHours() + getMinutes() / 60 + getSeconds() / 3600
DurationHoursWithSeconds(durationRaw) ==
    IF durationRaw.kind = "time"
    THEN FAdd(FAdd(FromInt(durationRaw.h), FDivSmall(FromInt(durationRaw.mi), 60)),
              FDiv3600(FromInt(durationRaw.s)))
    ELSE IF durationRaw.kind = "number"
    THEN FMulSmall(durationRaw.num, 24)
    ELSE FZero

\* lines 383-405: the loop of the second aggregateWeeklyStats, which has no
\* test of row.length
RECURSIVE WeeklyStatsLoopSeconds(_, _, _, _, _)
WeeklyStatsLoopSeconds(data, i, start, end, stats) ==
    IF i > Len(data) THEN stats
    ELSE LET row   == data[i]
             match == TitleMatch(row.title)
         IN  IF match.found /\ DateGe(row.date, start) /\ DateLe(row.date, end)
             THEN WeeklyStatsLoopSeconds(data, i + 1, start, end,
                      AddWeeklyStat(stats, match.cat, DurationHoursWithSeconds(row.dur)))
             ELSE WeeklyStatsLoopSeconds(data, i + 1, start, end, stats)

\* lines 379-407
aggregateWeeklyStatsSeconds(sheet, start, end) ==
    WeeklyStatsLoopSeconds(sheet, 2, start, end, <<>>)

\* the UTF-16 code unit of a character, and the order of strings that
\* Array.prototype.sort uses without a comparator
CharCode(ch) ==
    CASE ch = LineFeed -> 10
      [] ch = Blank -> 32
      [] ch = "A" -> 65
      [] ch = "B" -> 66
      [] ch = "C" -> 67
      [] ch = "T" -> 84
      [] ch = "a" -> 97
      [] ch = "b" -> 98
      [] ch = "f" -> 102
      [] ch = "x" -> 120
      [] ch = OpenMark -> 12304
      [] ch = CloseMark -> 12305

RECURSIVE StringLess(_, _)
StringLess(s, t) ==
    IF t = <<>> THEN FALSE
    ELSE IF s = <<>> THEN TRUE
    ELSE IF CharCode(Head(s)) # CharCode(Head(t)) THEN CharCode(Head(s)) < CharCode(Head(t))
    ELSE StringLess(Tail(s), Tail(t))

\* src/weeklyReport.js:153-155 (458-460): categoriesSet.add(cat) and
\* dailyMap[dateKey][cat] = (dailyMap[dateKey][cat] || 0) + dur; the map is
\* the sequence of its entries [day, cat, dur], and the key MM/dd of a day
\* of the week is the day
AddChartEntry(acc, cat, day, dur) ==
    LET cats == IF \E k \in 1..Len(acc.categories) : acc.categories[k] = cat
                THEN acc.categories ELSE Append(acc.categories, cat)
        Has(e) == e.day = day /\ e.cat = cat
        map  == IF \E k \in 1..Len(acc.dailyMap) : Has(acc.dailyMap[k])
                THEN [k \in 1..Len(acc.dailyMap) |->
                         IF Has(acc.dailyMap[k])
                         THEN [day |-> day, cat |-> cat,
                               dur |-> FAdd(acc.dailyMap[k].dur, dur)]
                         ELSE acc.dailyMap[k]]
                ELSE Append(acc.dailyMap, [day |-> day, cat |-> cat, dur |-> FAdd(FZero, dur)])
    IN  [categories |-> cats, dailyMap |-> map]

\* src/weeklyReport.js:132-157: the data collection of the first copy, which
\* skips short rows and rows whose date is invalid
RECURSIVE ChartLoop(_, _, _, _, _)
ChartLoop(data, i, start, end, acc) ==
    IF i > Len(data) THEN acc
    ELSE LET row   == data[i]
             match == TitleMatch(row.title)
         IN  IF RowLength(row) < 6 \/ isNaNDate(row.date)
             THEN ChartLoop(data, i + 1, start, end, acc)
             ELSE IF match.found /\ DateGe(row.date, start) /\ DateLe(row.date, end)
             THEN ChartLoop(data, i + 1, start, end,
                      AddChartEntry(acc, match.cat, DayOf(row.date.t), DurationHours(row.dur)))
             ELSE ChartLoop(data, i + 1, start, end, acc)

\* src/weeklyReport.js:444-462: the data collection of the second copy (the
\* hours of the chart have no seconds)
RECURSIVE ChartLoopSeconds(_, _, _, _, _)
ChartLoopSeconds(data, i, start, end, acc) ==
    IF i > Len(data) THEN acc
    ELSE LET row   == data[i]
             match == TitleMatch(row.title)
         IN  IF match.found /\ DateGe(row.date, start) /\ DateLe(row.date, end)
             THEN ChartLoopSeconds(data, i + 1, start, end,
                      AddChartEntry(acc, match.cat, DayOf(row.date.t), DurationHours(row.dur)))
             ELSE ChartLoopSeconds(data, i + 1, start, end, acc)

\* src/weeklyReport.js:162-175 (465-478): the header without its first
\* cell, and the seven rows of the grid without theirs
ChartGrid(categories, dailyMap, start) ==
    LET Cell(day, cat) ==
            IF \E k \in 1..Len(dailyMap) : dailyMap[k].day = day /\ dailyMap[k].cat = cat
            THEN (CHOOSE e \in {dailyMap[k] : k \in 1..Len(dailyMap)} :
                     e.day = day /\ e.cat = cat).dur
            ELSE FZero
    IN  [kind |-> "blob", categories |-> categories,
         rows |-> [i \in 1..7 |->
                      [k \in 1..Len(categories) |-> Cell(DayOf(start) + i - 1, categories[k])]]]

NoChartEntries == [categories |-> <<>>, dailyMap |-> <<>>]

\* src/weeklyReport.js:127-175: the data of the chart of the first copy, or
\* null when there is no category (line 160); the categories are sorted
ChartDataHours(data, start, end) ==
    LET acc        == ChartLoop(data, 2, start, end, NoChartEntries)
        after      == [p \in (1..Len(acc.categories)) \X (1..Len(acc.categories)) |->
                          StringLess(acc.categories[p[2]], acc.categories[p[1]])]
        categories == ArraySort(acc.categories, after)
    IN  IF Len(categories) = 0 THEN [kind |-> "null", categories |-> <<>>, rows |-> <<>>]
        ELSE ChartGrid(categories, acc.dailyMap, start)

\* src/weeklyReport.js:439-478: the data of the chart of the second copy
ChartDataSeconds(data, start, end) ==
    LET acc == ChartLoopSeconds(data, 2, start, end, NoChartEntries)
    IN  ChartGrid(acc.categories, acc.dailyMap, start)

\* src/unnamed/part_001:121-124: the data of the chart of the count-only
\* report, one row per row of the comparison
ChartDataCount(comparison) ==
    [kind |-> "blob", categories |-> <<"This Week", "Last Week">>,
     rows |-> [k \in 1..Len(comparison) |->
                  <<comparison[k].category, comparison[k].current, comparison[k].previous>>]]

-----------------------------------------------------------------------------
(* The spreadsheet, the script properties and the executions.              *)
(* The coarse handlers above run a report in one step on the sheet as it   *)
(* is.  Below, an execution advances call by call, so that rows can be     *)
(* written and other executions can run between two of its calls, and the  *)
(* services it calls (chart, HTTP, mail) can fail.                         *)

\* sheet names: 'DB', the '_tmp_chart' of src/weeklyReport.js:436 and
\* src/unnamed/part_001:117, the `ChartData_${new Date().getTime()}` of
\* src/weeklyReport.js:123
DbName == <<"DB", 0>>
TmpChartName == <<"_tmp_chart", 0>>
ChartDataName(t) == <<"ChartData_", t>>
NoName == <<"", 0>>

\* script properties
GeminiKey == "GEMINI_API_KEY"
LineToken == "line_personal_channel_token"
CalendarIds == {"CALENDAR_ID", "CALENDAR_ID2"}
AllProps == {GeminiKey, LineToken} \cup CalendarIds

FullEnv == [sheets |-> {DbName}, props |-> AllProps, triggers |-> <<>>]

\* the environments an execution starts in: everything configured, one
\* feature's properties missing, one calendar only, nothing configured; and
\* a spreadsheet without the sheet 'DB'
PropSets ==
    {AllProps, AllProps \ {GeminiKey}, AllProps \ {LineToken},
     AllProps \ CalendarIds, AllProps \ {"CALENDAR_ID2"}, {}}

Envs ==
    {[FullEnv EXCEPT !.props = ps] : ps \in PropSets} \cup {[FullEnv EXCEPT !.sheets = {}]}

\* the three variants of the weekly report: the first and the second
\* sendWeeklyReport of src/weeklyReport.js (lines 9 and 325) and the one of
\* src/unnamed/part_001
Variants == {"hours", "seconds", "count"}

Procs == {1, 2}

NoChart == [kind |-> "none", categories |-> <<>>, rows |-> <<>>]

\* an execution that is not running
NoRun ==
    [fn |-> "none", variant |-> "none", pc |-> "none", now |-> 0,
     thisWeekRange |-> NoRange, lastWeekRange |-> NoRange,
     reads |-> <<>>,
     thisWeekStats |-> <<>>, lastWeekStats |-> <<>>, comparison |-> <<>>,
     tmp |-> NoName, chart |-> NoChart, chartData |-> NoChart,
     daily |-> NoDaily,
     commentary |-> "none", requests |-> <<>>, mail |-> <<>>, line |-> <<>>,
     appended |-> 0, log |-> <<>>, error |-> "none", result |-> "none"]

NoProcs == [p \in Procs |-> NoRun]

\* what each variant calls to aggregate and to compare
AggregateStats(variant, sheet, start, end) ==
    CASE variant = "hours" -> aggregateWeeklyStats(sheet, start, end)
      [] variant = "seconds" -> aggregateWeeklyStatsSeconds(sheet, start, end)
      [] variant = "count" -> aggregateCategoryStats(sheet, start, end)

CompareStats(variant, current, previous) ==
    IF variant = "count" THEN compareCategoryStats(current, previous)
    ELSE compareWeeklyStats(current, previous)

\* src/weeklyReport.js:39-42: the catch of sendWeeklyReport logs the error
\* and throws it again; `error` is the call that threw
Raised(r) ==
    [r EXCEPT !.pc = "done", !.result = "raised", !.error = r.pc,
              !.log = Append(@, "Weekly Report Failed")]

\* src/weeklyReport.js:11-14: a trigger or a user starts sendWeeklyReport
StartWeekly(p) ==
    /\ procs[p].fn = "none"
    /\ \E v \in Variants :
          procs' = [procs EXCEPT ![p] =
                       [NoRun EXCEPT !.fn = "sendWeeklyReport", !.variant = v,
                                     !.pc = "getSheet", !.now = now,
                                     !.thisWeekRange = getWeeklyDateRange(now, 0),
                                     !.lastWeekRange = getWeeklyDateRange(now, -1),
                                     !.result = "running"]]
    /\ UNCHANGED <<db, now, pc, weekly, daily, env>>

\* line 16 without the throw of line 17
GetSheetUnchecked(p) ==
    /\ procs[p].fn = "sendWeeklyReport"
    /\ procs[p].pc = "getSheet"
    /\ procs' = [procs EXCEPT ![p] = [@ EXCEPT !.pc = "aggregateThisWeek"]]
    /\ UNCHANGED <<db, now, pc, weekly, daily, env>>

\* lines 16-17: getSheetByName('DB'), and the throw when there is none
GetSheet(p) ==
    /\ procs[p].fn = "sendWeeklyReport"
    /\ procs[p].pc = "getSheet"
    /\ procs' = [procs EXCEPT ![p] =
                    IF DbName \in env.sheets THEN [@ EXCEPT !.pc = "aggregateThisWeek"]
                    ELSE Raised(@)]
    /\ UNCHANGED <<db, now, pc, weekly, daily, env>>

\* line 20: the first aggregation reads the sheet (line 64)
AggregateThisWeek(p) ==
    /\ procs[p].fn = "sendWeeklyReport"
    /\ procs[p].pc = "aggregateThisWeek"
    /\ procs' = [procs EXCEPT ![p] =
                    [@ EXCEPT !.pc = "aggregateLastWeek",
                              !.reads = Append(@, Len(db)),
                              !.thisWeekStats =
                                  AggregateStats(procs[p].variant, db,
                                                 procs[p].thisWeekRange.start,
                                                 procs[p].thisWeekRange.end)]]
    /\ UNCHANGED <<db, now, pc, weekly, daily, env>>

\* lines 21-24: the second aggregation reads the sheet again; the comparison
AggregateLastWeek(p) ==
    /\ procs[p].fn = "sendWeeklyReport"
    /\ procs[p].pc = "aggregateLastWeek"
    /\ LET lastWeekStats == AggregateStats(procs[p].variant, db,
                                           procs[p].lastWeekRange.start,
                                           procs[p].lastWeekRange.end)
       IN  procs' = [procs EXCEPT ![p] =
                        [@ EXCEPT !.pc = "insertSheet",
                                  !.reads = Append(@, Len(db)),
                                  !.lastWeekStats = lastWeekStats,
                                  !.comparison = CompareStats(procs[p].variant,
                                                              procs[p].thisWeekStats,
                                                              lastWeekStats)]]
    /\ UNCHANGED <<db, now, pc, weekly, daily, env>>

\* lines 122-124 (435-436, part_001:116-117): the name of the temporary
\* sheet, and insertSheet, which throws when a sheet has that name; the call
\* is outside the try of the chart function
TmpSheetName(variant, t) == IF variant = "hours" THEN ChartDataName(t) ELSE TmpChartName

InsertSheet(p) ==
    /\ procs[p].fn = "sendWeeklyReport"
    /\ procs[p].pc = "insertSheet"
    /\ LET name == TmpSheetName(procs[p].variant, now)
       IN  IF name \in env.sheets
           THEN /\ procs' = [procs EXCEPT ![p] = Raised(@)]
                /\ UNCHANGED env
           ELSE /\ procs' = [procs EXCEPT ![p] = [@ EXCEPT !.pc = "chart", !.tmp = name]]
                /\ env' = [env EXCEPT !.sheets = @ \cup {name}]
    /\ UNCHANGED <<db, now, pc, weekly, daily>>

\* what the chart service does with a range: an image, or an exception
ChartOutcomes == {"image", "error"}

\* the data of the chart of a variant: the two copies of
\* src/weeklyReport.js read the sheet once more (lines 127 and 439),
\* part_001 takes the comparison
ChartDataOf(variant, sheet, range, comparison) ==
    CASE variant = "hours" -> ChartDataHours(sheet, range.start, range.end)
      [] variant = "seconds" -> ChartDataSeconds(sheet, range.start, range.end)
      [] variant = "count" -> ChartDataCount(comparison)

\* the execution r with the data of its chart, and the temporary sheet
\* deleted (the finally of lines 199-201)
WithChartData(r, sheet) ==
    [r EXCEPT !.reads = IF r.variant = "count" THEN @ ELSE Append(@, Len(sheet)),
              !.chartData = ChartDataOf(r.variant, sheet, r.thisWeekRange, r.comparison),
              !.tmp = NoName]

\* lines 160, 183-198: the first copy returns null without a category and,
\* from its catch, on an exception; the others let the exception through
Rendered(read, o) ==
    LET null == [kind |-> "null", categories |-> <<>>, rows |-> <<>>]
    IN  IF read.variant = "hours"
        THEN IF read.chartData.kind = "null"
             THEN [read EXCEPT !.pc = "commentary", !.chart = null]
             ELSE IF o = "image"
             THEN [read EXCEPT !.pc = "commentary", !.chart = read.chartData]
             ELSE [read EXCEPT !.pc = "commentary", !.chart = null,
                               !.log = Append(@, "Chart Error")]
        ELSE IF o = "image"
             THEN [read EXCEPT !.pc = "commentary", !.chart = read.chartData]
             ELSE Raised(read)

\* the finally without its deleteSheet: the sheet stays
KeepSheet(sheets, name) == sheets

\* lines 199-201 (499-501, part_001:141-143): ss.deleteSheet(tmpSheet) in
\* the finally of the chart function
DeleteSheet(sheets, name) == sheets \ {name}

\* lines 126-201 (438-501, part_001:119-143)
RenderChart(p, outcomes) ==
    /\ procs[p].fn = "sendWeeklyReport"
    /\ procs[p].pc = "chart"
    /\ \E o \in outcomes :
          procs' = [procs EXCEPT ![p] = Rendered(WithChartData(@, db), o)]
    /\ env' = [env EXCEPT !.sheets = DeleteSheet(@, procs[p].tmp)]
    /\ UNCHANGED <<db, now, pc, weekly, daily>>

\* what the request to the commentary service gives: a text; an exception
\* of UrlFetchApp.fetch; a body that JSON.parse rejects; a JSON without
\* `candidates`; a candidate without `content`
CommentaryOutcomes == {"text", "throws", "unparseable", "noCandidates", "noContent"}

\* src/weeklyReport.js:207-231 (507-526) and src/unnamed/part_001:149-183.
\* Without the key: the placeholder, and no request.  Neither function has a
\* try: the exceptions of fetch, of JSON.parse and of
\* json.candidates[0].content (a TypeError) go to the catch of
\* sendWeeklyReport; without `candidates`, src/weeklyReport.js returns its
\* fallback string and part_001 throws (line 181)
GetGeminiCommentary(p, outcomes) ==
    /\ procs[p].fn = "sendWeeklyReport"
    /\ procs[p].pc = "commentary"
    /\ LET r == procs[p]
       IN  IF GeminiKey \notin env.props
           THEN procs' = [procs EXCEPT ![p] = [r EXCEPT !.pc = "send", !.commentary = "skipped"]]
           ELSE \E o \in outcomes :
                   LET asked == [r EXCEPT !.requests = Append(@, "generateContent")]
                   IN  procs' = [procs EXCEPT ![p] =
                                    IF o = "text"
                                    THEN [asked EXCEPT !.pc = "send", !.commentary = "text"]
                                    ELSE IF o = "noCandidates" /\ r.variant # "count"
                                    THEN [asked EXCEPT !.pc = "send", !.commentary = "fallback"]
                                    ELSE Raised(asked)]
    /\ UNCHANGED <<db, now, pc, weekly, daily, env>>

\* what GmailApp.sendEmail does: the mail is sent, or an exception
MailOutcomes == {"sent", "error"}

\* src/weeklyReport.js:236-303 (531-591, part_001:188-236): the mail, with
\* the chart inline and attached; the first copy leaves both out when the
\* chart is null (lines 257-260, 301)
SendHtmlEmail(p, outcomes) ==
    /\ procs[p].fn = "sendWeeklyReport"
    /\ procs[p].pc = "send"
    /\ LET r    == procs[p]
           with == IF r.variant = "hours" THEN r.chart.kind = "blob" ELSE TRUE
           mail == [commentary |-> r.commentary, comparison |-> r.comparison,
                    inlineImage |-> with, attachment |-> with, chart |-> r.chart]
       IN  \E o \in outcomes :
              procs' = [procs EXCEPT ![p] =
                           IF o = "sent"
                           THEN [r EXCEPT !.pc = "done", !.result = "returned",
                                          !.mail = Append(@, mail)]
                           ELSE Raised(r)]
    /\ UNCHANGED <<db, now, pc, weekly, daily, env>>

\* the execution is over: its locals and its log are gone
Finish(p) ==
    /\ procs[p].pc = "done"
    /\ procs' = [procs EXCEPT ![p] = NoRun]
    /\ UNCHANGED <<db, now, pc, weekly, daily, env>>

\* src/dailyLineNotify.js:91-93: the catch of dailyLineNotify logs the error
\* and the function returns
Swallowed(r) ==
    [r EXCEPT !.pc = "done", !.result = "returned", !.log = Append(@, "Daily LINE Error")]

\* lines 11-18: a trigger or a user starts dailyLineNotify
StartDaily(p) ==
    /\ procs[p].fn = "none"
    /\ procs' = [procs EXCEPT ![p] =
                    [NoRun EXCEPT !.fn = "dailyLineNotify", !.pc = "getSheet",
                                  !.now = now, !.result = "running"]]
    /\ UNCHANGED <<db, now, pc, weekly, daily, env>>

\* lines 23-25
DailyGetSheet(p) ==
    /\ procs[p].fn = "dailyLineNotify"
    /\ procs[p].pc = "getSheet"
    /\ procs' = [procs EXCEPT ![p] =
                    IF DbName \in env.sheets THEN [@ EXCEPT !.pc = "extract"]
                    ELSE Swallowed(@)]
    /\ UNCHANGED <<db, now, pc, weekly, daily, env>>

\* lines 27-70 without the returns of lines 28 and 62: the run goes on to
\* the commentary whatever the sheet holds
DailyExtractWithoutReturns(p) ==
    /\ procs[p].fn = "dailyLineNotify"
    /\ procs[p].pc = "extract"
    /\ procs' = [procs EXCEPT ![p] =
                    [@ EXCEPT !.pc = "insight", !.reads = Append(@, Len(db)),
                              !.daily = dailyLineNotifyLocals(db, procs[p].now)]]
    /\ UNCHANGED <<db, now, pc, weekly, daily, env>>

\* lines 27-70: the sheet is read once; the returns of lines 28 and 62
DailyExtract(p) ==
    /\ procs[p].fn = "dailyLineNotify"
    /\ procs[p].pc = "extract"
    /\ LET locals == dailyLineNotifyLocals(db, procs[p].now)
           read   == [procs[p] EXCEPT !.reads = Append(@, Len(db)), !.daily = locals]
       IN  procs' = [procs EXCEPT ![p] =
                        IF locals.exit = "analysed" THEN [read EXCEPT !.pc = "insight"]
                        ELSE IF locals.exit = "noYesterday"
                        THEN [read EXCEPT !.pc = "done", !.result = "returned",
                                          !.log = Append(@, "No data for yesterday")]
                        ELSE [read EXCEPT !.pc = "done", !.result = "returned"]]
    /\ UNCHANGED <<db, now, pc, weekly, daily, env>>

\* lines 143-168: without the key, the placeholder and no request; the text
\* of the first candidate; the fallback string for every other response and
\* for every exception, which the try of lines 158-166 catches and logs
GetGeminiDailyInsight(p, outcomes) ==
    /\ procs[p].fn = "dailyLineNotify"
    /\ procs[p].pc = "insight"
    /\ LET r == procs[p]
       IN  IF GeminiKey \notin env.props
           THEN procs' = [procs EXCEPT ![p] = [r EXCEPT !.pc = "send", !.commentary = "skipped"]]
           ELSE \E o \in outcomes :
                   LET asked == [r EXCEPT !.requests = Append(@, "generateContent"),
                                          !.pc = "send"]
                   IN  procs' = [procs EXCEPT ![p] =
                                    IF o = "text" THEN [asked EXCEPT !.commentary = "text"]
                                    ELSE IF o = "noCandidates"
                                    THEN [asked EXCEPT !.commentary = "fallback"]
                                    ELSE [asked EXCEPT !.commentary = "fallback",
                                                       !.log = Append(@, "Gemini Error")]]
    /\ UNCHANGED <<db, now, pc, weekly, daily, env>>

\* what the broadcast request gives: the message is delivered; the service
\* answers with an error status (muteHttpExceptions: no exception); an
\* exception of UrlFetchApp.fetch
LineOutcomes == {"delivered", "rejected", "throws"}

\* lines 173-196, called at line 89: without the token a warning and no
\* request; the response is not looked at; an exception is caught and logged
SendLineMessage(p, outcomes) ==
    /\ procs[p].fn = "dailyLineNotify"
    /\ procs[p].pc = "send"
    /\ LET r    == procs[p]
           done == [r EXCEPT !.pc = "done", !.result = "returned"]
       IN  IF LineToken \notin env.props
           THEN procs' = [procs EXCEPT ![p] =
                             [done EXCEPT !.log = Append(@, "line_personal_channel_token missing")]]
           ELSE \E o \in outcomes :
                   LET asked == [done EXCEPT !.requests = Append(@, "broadcast")]
                       text  == [commentary |-> r.commentary, analysisData |-> r.daily.analysisData]
                   IN  procs' = [procs EXCEPT ![p] =
                                    IF o = "delivered" THEN [asked EXCEPT !.line = Append(@, text)]
                                    ELSE IF o = "rejected" THEN asked
                                    ELSE [asked EXCEPT !.log = Append(@, "LINE exception")]]
    /\ UNCHANGED <<db, now, pc, weekly, daily, env>>

-----------------------------------------------------------------------------
(* addCalendarDayEvents (src/addCalendarDayEvents.js)                       *)

\* an event of a calendar; the instants are whole multiples of 45 minutes
\* (1/32 of a day), whose difference in days the sheet holds exactly
CalendarEvent(title, start, end) == [title |-> title, start |-> start, end |-> end]

\* the calendars of the two properties
Calendar(id) ==
    IF id = "CALENDAR_ID"
    THEN << CalendarEvent(<<OpenMark, "A", CloseMark, "a">>,
                          MkDate(15, 9, 0, 0, 0), MkDate(15, 12, 0, 0, 0)),
            CalendarEvent(<<OpenMark, "B", CloseMark>>,
                          MkDate(15, 0, 0, 0, 0), MkDate(16, 0, 0, 0, 0)) >>
    ELSE << CalendarEvent(<<OpenMark, "C", CloseMark>>,
                          MkDate(14, 21, 0, 0, 0), MkDate(14, 22, 30, 0, 0)) >>

\* the days cell G4 may hold (line 13)
TargetDays == {14, 15}

\* the calendars as a function of the property that names them
Calendars == [id \in CalendarIds |-> Calendar(id)]

\* other contents of the two calendars: one event that both calendars hold;
\* one event that begins on day 14 and ends on day 15
SharedCalendars ==
    [id \in CalendarIds |->
        << CalendarEvent(<<OpenMark, "A", CloseMark, "a">>,
                         MkDate(15, 9, 0, 0, 0), MkDate(15, 12, 0, 0, 0)) >>]

OvernightCalendars ==
    [id \in CalendarIds |->
        IF id = "CALENDAR_ID"
        THEN << CalendarEvent(<<OpenMark, "C", CloseMark>>,
                              MkDate(14, 22, 30, 0, 0), MkDate(15, 0, 45, 0, 0)) >>
        ELSE << >>]

CalendarBooks == {Calendars, SharedCalendars, OvernightCalendars}

\* calendar.getEvents(startTime, endTime): the events that overlap the range
GetEvents(book, id, startTime, endTime) ==
    SelectSeq(book[id], LAMBDA ev : ev.start < endTime /\ ev.end > startTime)

\* the position of the first ch in text, or 0: FIND of the sheet
Find(text, ch) ==
    LET js == {j \in 1..Len(text) : text[j] = ch}
    IN  IF js = {} THEN 0 ELSE MinOf(js)

\* line 75, the formula of column E:
\* IFERROR(MID(title, FIND(open)+1, FIND(close)-FIND(open)-1), "")
CategoryFormula(title) ==
    LET o == Find(title, OpenMark)
        c == Find(title, CloseMark)
    IN  IF o = 0 \/ c = 0 \/ c - o - 1 < 0 THEN <<>>
        ELSE SubSeq(title, o + 1, c - 1)

\* line 74, the formula of column D: the empty text for an event of 24
\* hours, else end - start in days
DurationFormula(start, end) ==
    IF end - start = DayMs \/ start - end = DayMs THEN TextCell
    ELSE NumberCell((end - start) \div (DayMs \div 32), 32)

\* lines 69-78: the record of an event, with the values its formulas take
\* in the sheet; column F (line 76, INT of the start) is shown as a date
formatEventRecord(event) ==
    [title |-> event.title, start |-> event.start, end |-> event.end,
     dur |-> DurationFormula(event.start, event.end),
     cat |-> CategoryFormula(event.title),
     date |-> DateCell(MkDate(DayOf(event.start), 0, 0, 0, 0))]

\* lines 119-121
createEventKey(title, startTime) == <<title, startTime>>

\* lines 86-99, 107-111: the keys of the rows whose column B is a Date of
\* the day of startTime
getSheetEventsSetForDate(sheet, startTime) ==
    {createEventKey(sheet[i].title, sheet[i].start) :
        i \in {j \in 1..Len(sheet) : /\ "start" \in DOMAIN sheet[j]
                                      /\ DayOf(sheet[j].start) = DayOf(startTime)}}

\* lines 47-62: the records of the events of every configured calendar
RECURSIVE getCalenderAction(_, _, _, _)
getCalenderAction(book, calendarIDs, startTime, endTime) ==
    IF calendarIDs = <<>> THEN <<>>
    ELSE LET events == GetEvents(book, Head(calendarIDs), startTime, endTime)
         IN  [k \in 1..Len(events) |-> formatEventRecord(events[k])]
                 \o getCalenderAction(book, Tail(calendarIDs), startTime, endTime)

\* line 49 without filter(Boolean)
ConfiguredCalendarsUnfiltered(props) == <<"CALENDAR_ID", "CALENDAR_ID2">>

\* line 49: the two properties, those that are not set filtered out
ConfiguredCalendars(props) ==
    SelectSeq(<<"CALENDAR_ID", "CALENDAR_ID2">>, LAMBDA id : id \in props)

\* lines 5-39, as one step, with the calendars holding the events of book:
\* without the sheet 'DB', line 13 raises a TypeError, which nothing catches
AddCalendarDayEventsFrom(book, p) ==
    /\ procs[p].fn = "none"
    /\ \E day \in TargetDays :
          LET startTime      == MkDate(day, 0, 0, 0, 0)
              endTime        == MkDate(day + 1, 0, 0, 0, 0)
              calendarIDs    == ConfiguredCalendars(env.props)
              calendarEvents == getCalenderAction(book, calendarIDs, startTime, endTime)
              sheetEventsSet == getSheetEventsSetForDate(db, startTime)
              newEvents      == SelectSeq(calendarEvents,
                                    LAMBDA event :
                                        createEventKey(event.title, event.start)
                                            \notin sheetEventsSet)
              run            == [NoRun EXCEPT !.fn = "addCalendarDayEvents", !.pc = "done",
                                              !.now = now]
          IN  IF DbName \notin env.sheets
              THEN /\ procs' = [procs EXCEPT ![p] = [run EXCEPT !.result = "raised",
                                                                !.error = "getRange"]]
                   /\ UNCHANGED db
              ELSE /\ Len(db) + Len(newEvents) <= 1 + MaxRows
                   /\ db' = db \o newEvents
                   /\ procs' = [procs EXCEPT ![p] =
                                   [run EXCEPT !.result = "returned",
                                               !.requests = [k \in 1..Len(calendarIDs) |->
                                                                "getEvents"],
                                               !.appended = Len(newEvents)]]
    /\ UNCHANGED <<now, pc, weekly, daily, env>>

AddCalendarDayEvents(p) == AddCalendarDayEventsFrom(Calendars, p)

-----------------------------------------------------------------------------
(* The project triggers: createWeeklyTrigger (src/weeklyReport.js:308-315   *)
(* and 596-603, src/unnamed/part_001:242-259) and createDailyLineTrigger    *)
(* (src/dailyLineNotify.js:201-213)                                         *)

\* a trigger: the function it calls and its schedule
Trigger(handler, schedule) == [handler |-> handler, schedule |-> schedule]

Handlers == {"sendWeeklyReport", "dailyLineNotify", "addCalendarDayEvents"}

\* the forEach without the deleteTrigger: every trigger is kept
KeepTriggers(triggers, handler) == triggers

\* triggers.forEach(t => { if (t.getHandlerFunction() === handler)
\* ScriptApp.deleteTrigger(t); }): the triggers that remain
DeleteTriggersOf(triggers, handler) ==
    SelectSeq(triggers, LAMBDA t : t.handler # handler)

\* the calls of the function: one deleteTrigger per trigger of the handler,
\* then newTrigger
TriggerCalls(triggers, handler) ==
    [k \in 1..(Len(triggers) - Len(SelectSeq(triggers, LAMBDA t : t.handler # handler))) |->
        "deleteTrigger"] \o <<"newTrigger">>

\* the function as one step: the triggers of the handler deleted, a new
\* one created
CreateTrigger(p, fn, handler, schedule) ==
    /\ procs[p].fn = "none"
    /\ env' = [env EXCEPT !.triggers =
                   Append(DeleteTriggersOf(@, handler), Trigger(handler, schedule))]
    /\ procs' = [procs EXCEPT ![p] =
                    [NoRun EXCEPT !.fn = fn, !.pc = "done", !.now = now,
                                  !.requests = TriggerCalls(env.triggers, handler),
                                  !.result = "returned"]]
    /\ UNCHANGED <<db, now, pc, weekly, daily>>

\* src/weeklyReport.js:308-315
CreateWeeklyTrigger(p) ==
    CreateTrigger(p, "createWeeklyTrigger", "sendWeeklyReport", "Sunday 9")

\* src/dailyLineNotify.js:201-213
CreateDailyLineTrigger(p) ==
    CreateTrigger(p, "createDailyLineTrigger", "dailyLineNotify", "every day 5")

\* a user adds a trigger in the editor, for any function and on a schedule
\* of their own
InstallTrigger ==
    /\ Len(env.triggers) < MaxTriggers
    /\ \E h \in Handlers :
          env' = [env EXCEPT !.triggers = Append(@, Trigger(h, "by hand"))]
    /\ UNCHANGED <<db, now, pc, weekly, daily, procs>>

-----------------------------------------------------------------------------
(* The coarse handlers as actions *)

\* a row is appended below the last row of the sheet
AppendRowOf(rows) ==
    /\ pc = "idle"
    /\ Len(db) < 1 + MaxRows
    /\ \E r \in rows : db' = Append(db, r)
    /\ UNCHANGED <<now, pc, weekly, daily, env, procs>>

AppendRow == AppendRowOf(SheetRows)

\* time passes to the next of the given instants
PassTime(instants) ==
    /\ pc = "idle"
    /\ \E t \in instants :
          /\ t > now
          /\ \A u \in instants : u > now => t <= u
          /\ now' = t
    /\ UNCHANGED <<db, pc, weekly, daily, env, procs>>

SendWeeklyReport ==
    /\ pc = "idle"
    /\ weekly' = sendWeeklyReportLocals(db, now)
    /\ pc' = "weekly"
    /\ UNCHANGED <<db, now, daily, env, procs>>

SendCountReport ==
    /\ pc = "idle"
    /\ weekly' = sendCountReportLocals(db, now)
    /\ pc' = "weeklyCount"
    /\ UNCHANGED <<db, now, daily, env, procs>>

DailyLineNotify ==
    /\ pc = "idle"
    /\ daily' = dailyLineNotifyLocals(db, now)
    /\ pc' = "daily"
    /\ UNCHANGED <<db, now, weekly, env, procs>>

\* the handler has returned: its locals are gone
Return ==
    /\ pc # "idle"
    /\ pc' = "idle"
    /\ weekly' = NoWeekly
    /\ daily' = NoDaily
    /\ UNCHANGED <<db, now, env, procs>>

ClockTick == PassTime(RunInstants)

Init ==
    /\ db = <<HeaderRow>>
    /\ now = MinOf(RunInstants)
    /\ pc = "idle"
    /\ weekly = NoWeekly
    /\ daily = NoDaily
    /\ env = FullEnv
    /\ procs = NoProcs

Next ==
    \/ AppendRow
    \/ ClockTick
    \/ SendWeeklyReport
    \/ SendCountReport
    \/ DailyLineNotify
    \/ Return

Spec == Init /\ [][Next]_vars

\* The week windows alone, for every reference instant of RefInstants, on
\* a sheet without data rows
RefTick == PassTime(RefInstants)

InitWindow ==
    /\ db = <<HeaderRow>>
    /\ now = MinOf(RefInstants)
    /\ pc = "idle"
    /\ weekly = NoWeekly
    /\ daily = NoDaily
    /\ env = FullEnv
    /\ procs = NoProcs

NextWindow ==
    \/ RefTick
    \/ SendWeeklyReport
    \/ SendCountReport
    \/ DailyLineNotify
    \/ Return

SpecWindow == InitWindow /\ [][NextWindow]_vars

\* The handlers that add hours, on the sheets filled from SummedRows
AppendSummedRow == AppendRowOf(SummedRows)

NextSum ==
    \/ AppendSummedRow
    \/ ClockTick
    \/ SendWeeklyReport
    \/ DailyLineNotify
    \/ Return

SpecSum == Init /\ [][NextSum]_vars

\* One execution at a time of each handler, on the sheets of CellSheets, with
\* services that answer
InitCells ==
    /\ db \in CellSheets
    /\ now = MinOf(RunInstants)
    /\ pc = "idle"
    /\ weekly = NoWeekly
    /\ daily = NoDaily
    /\ env = FullEnv
    /\ procs = NoProcs

NextCells ==
    \/ StartWeekly(1)
    \/ GetSheet(1)
    \/ AggregateThisWeek(1)
    \/ AggregateLastWeek(1)
    \/ InsertSheet(1)
    \/ RenderChart(1, {"image"})
    \/ GetGeminiCommentary(1, {"text"})
    \/ SendHtmlEmail(1, {"sent"})
    \/ StartDaily(1)
    \/ DailyGetSheet(1)
    \/ DailyExtract(1)
    \/ GetGeminiDailyInsight(1, {"text"})
    \/ SendLineMessage(1, {"delivered"})
    \/ Finish(1)

SpecCells == InitCells /\ [][NextCells]_vars

\* One execution of a report handler, with services that answer or fail and
\* every combination of properties of Envs, while addCalendarDayEvents (an
\* execution of its own) appends the events of the calendars to the sheet
RunSheets ==
    { <<HeaderRow>>,
      <<HeaderRow, Row(<<OpenMark, "B", CloseMark>>, NumberCell(1, 48), <<"B">>,
                       DateCell(MkDate(13, 23, 59, 59, 999)))>>,
      <<HeaderRow, Row(<<CloseMark, "x", OpenMark, "A">>, TimeCell(1, 0, 0), <<>>,
                       DateCell(MkDate(15, 12, 0, 0, 0)))>> }

InitRun ==
    /\ db \in RunSheets
    /\ now = MinOf(RunInstants)
    /\ pc = "idle"
    /\ weekly = NoWeekly
    /\ daily = NoDaily
    /\ env \in Envs
    /\ procs = NoProcs

NextRun ==
    \/ StartWeekly(1)
    \/ GetSheet(1)
    \/ AggregateThisWeek(1)
    \/ AggregateLastWeek(1)
    \/ InsertSheet(1)
    \/ RenderChart(1, ChartOutcomes)
    \/ GetGeminiCommentary(1, CommentaryOutcomes)
    \/ SendHtmlEmail(1, MailOutcomes)
    \/ StartDaily(1)
    \/ DailyGetSheet(1)
    \/ DailyExtract(1)
    \/ GetGeminiDailyInsight(1, CommentaryOutcomes)
    \/ SendLineMessage(1, LineOutcomes)
    \/ AddCalendarDayEvents(2)
    \/ Finish(1)
    \/ Finish(2)

SpecRun == InitRun /\ [][NextRun]_vars

\* Two executions of sendWeeklyReport that overlap, on one sheet, with
\* services that answer; the clock may advance by a millisecond between
\* their steps
OverlapInstants == {MkDate(20, 9, 0, 0, 0), MkDate(20, 9, 0, 0, 1)}

OverlapSheet ==
    <<HeaderRow,
      Row(<<OpenMark, "A", CloseMark, "a">>, TimeCell(0, 6, 0), <<"A">>,
          DateCell(MkDate(15, 0, 0, 0, 0))),
      Row(<<OpenMark, "B", CloseMark>>, NumberCell(1, 48), <<"B">>,
          DateCell(MkDate(13, 23, 59, 59, 999)))>>

Millisecond == PassTime(OverlapInstants)

InitOverlap ==
    /\ db = OverlapSheet
    /\ now = MinOf(OverlapInstants)
    /\ pc = "idle"
    /\ weekly = NoWeekly
    /\ daily = NoDaily
    /\ env = FullEnv
    /\ procs = NoProcs

NextOverlap ==
    \/ Millisecond
    \/ \E p \in Procs :
          \/ StartWeekly(p)
          \/ GetSheet(p)
          \/ AggregateThisWeek(p)
          \/ AggregateLastWeek(p)
          \/ InsertSheet(p)
          \/ RenderChart(p, {"image"})
          \/ GetGeminiCommentary(p, {"text"})
          \/ SendHtmlEmail(p, {"sent"})
          \/ Finish(p)

SpecOverlap == InitOverlap /\ [][NextOverlap]_vars

\* Executions of addCalendarDayEvents one after the other, for any target
\* day, with one or two calendars whose events change between the runs
InitCalendar ==
    /\ db = <<HeaderRow>>
    /\ now = MinOf(RunInstants)
    /\ pc = "idle"
    /\ weekly = NoWeekly
    /\ daily = NoDaily
    /\ env \in {e \in Envs : e.props \cap CalendarIds # {} /\ DbName \in e.sheets}
    /\ procs = NoProcs

AddEventsOfAnyCalendar == \E book \in CalendarBooks : AddCalendarDayEventsFrom(book, 1)

Returned == Finish(1)

NextCalendar ==
    \/ AddEventsOfAnyCalendar
    \/ Returned

SpecCalendar == InitCalendar /\ [][NextCalendar]_vars

\* The functions that install the triggers, called any number of times, in
\* a project where a user also installs triggers by hand
NextTriggers ==
    \/ InstallTrigger
    \/ CreateWeeklyTrigger(1)
    \/ CreateDailyLineTrigger(1)
    \/ Returned

SpecTriggers == Init /\ [][NextTriggers]_vars

-----------------------------------------------------------------------------
(* Vocabulary of the properties *)

\* the categories a statistics object has an entry for, and the entries
KeySet(stats) == {stats[i].category : i \in 1..Len(stats)}

Entries(stats) == {stats[i] : i \in 1..Len(stats)}

EntryOf(stats, cat) == CHOOSE e \in Entries(stats) : e.category = cat

\* the data rows of the sheet: the positions after the header
DataRows == 2..Len(db)

WeeklyDone == pc = "weekly"

CountDone == pc = "weeklyCount"

Analysed == pc = "daily" /\ daily.exit = "analysed"

-----------------------------------------------------------------------------
(* C1: compareWeeklyStats returns exactly one row per category of the      *)
(* union of the two maps' keys, none missing and none twice; the side on   *)
(* which a category is absent is filled with count 0 and duration 0;       *)
(* diffCount = currentCount - previousCount and diffDuration =             *)
(* currentDuration - previousDuration; two empty maps give no rows.        *)

C1_DurationRows ==
    LET cur == weekly.thisWeekStats
        pre == weekly.lastWeekStats
        cmp == weekly.comparison
    IN  /\ {cmp[i].category : i \in 1..Len(cmp)} = KeySet(cur) \cup KeySet(pre)
        /\ Len(cmp) = Cardinality(KeySet(cur) \cup KeySet(pre))
        /\ \A i \in 1..Len(cmp) :
              LET r == cmp[i]
              IN  /\ IF r.category \in KeySet(cur)
                     THEN /\ r.currentCount = EntryOf(cur, r.category).count
                          /\ r.currentDuration = EntryOf(cur, r.category).duration
                     ELSE r.currentCount = 0 /\ r.currentDuration = FZero
                  /\ IF r.category \in KeySet(pre)
                     THEN /\ r.previousCount = EntryOf(pre, r.category).count
                          /\ r.previousDuration = EntryOf(pre, r.category).duration
                     ELSE r.previousCount = 0 /\ r.previousDuration = FZero
                  /\ r.diffCount = r.currentCount - r.previousCount
                  /\ r.diffDuration = FSub(r.currentDuration, r.previousDuration)

C1_CountRows ==
    LET cur == weekly.thisWeekStats
        pre == weekly.lastWeekStats
        cmp == weekly.comparison
    IN  /\ {cmp[i].category : i \in 1..Len(cmp)} = KeySet(cur) \cup KeySet(pre)
        /\ Len(cmp) = Cardinality(KeySet(cur) \cup KeySet(pre))
        /\ \A i \in 1..Len(cmp) :
              LET r == cmp[i]
              IN  /\ r.current = IF r.category \in KeySet(cur)
                                 THEN EntryOf(cur, r.category).count ELSE 0
                  /\ r.previous = IF r.category \in KeySet(pre)
                                  THEN EntryOf(pre, r.category).count ELSE 0
                  /\ r.diff = r.current - r.previous

C1_ComparisonComplete ==
    /\ WeeklyDone => C1_DurationRows
    /\ CountDone => C1_CountRows

\* a comparison with a category of this week only, one of last week only,
\* and a negative difference of hours
C1_Witness ==
    /\ WeeklyDone
    /\ \E i, j \in 1..Len(weekly.comparison) :
          /\ weekly.comparison[i].previousCount = 0
          /\ weekly.comparison[i].currentCount > 0
          /\ weekly.comparison[j].currentCount = 0
          /\ weekly.comparison[j].previousCount > 0
          /\ FNegative(weekly.comparison[j].diffDuration)

-----------------------------------------------------------------------------
(* C2: buildDailyAnalysis returns a row for every category that appears    *)
(* in the statistics of yesterday or in those of the past week, with 0     *)
(* hours for the side on which the category is absent.                     *)

\* the claim as stated
C2_RowForEveryCategory ==
    Analysed =>
        {daily.analysisData[i].category : i \in 1..Len(daily.analysisData)}
            = KeySet(daily.statsYesterday) \cup KeySet(daily.statsWeek)

\* yesterday's hours of a category, and a seventh of its hours of the past
\* week; 0 where the category is absent
C2_Hours(cat) ==
    IF cat \in KeySet(daily.statsYesterday)
    THEN EntryOf(daily.statsYesterday, cat).hours ELSE FZero

C2_Average(cat) ==
    IF cat \in KeySet(daily.statsWeek)
    THEN FDivSmall(EntryOf(daily.statsWeek, cat).hours, 7) ELSE FZero

\* as amended: a row for exactly the categories of either map with hours
\* yesterday above 0 or an average above 0.1, none twice; the row holds
\* yesterday's hours, the average and their difference
C2_RowForEveryActiveCategory ==
    Analysed =>
        LET res == daily.analysisData
        IN  /\ {res[i].category : i \in 1..Len(res)}
                  = {cat \in KeySet(daily.statsYesterday) \cup KeySet(daily.statsWeek) :
                        FPos(C2_Hours(cat)) \/ FLt(OneTenth, C2_Average(cat))}
            /\ \A i, j \in 1..Len(res) : res[i].category = res[j].category => i = j
            /\ \A i \in 1..Len(res) :
                  /\ res[i].hours = C2_Hours(res[i].category)
                  /\ res[i].avg = C2_Average(res[i].category)
                  /\ res[i].diff = FSub(res[i].hours, res[i].avg)

\* an analysis that leaves a category out, has a row of a category absent
\* yesterday and a row of a category absent from the past week
C2_Witness ==
    /\ Analysed
    /\ \E cat \in KeySet(daily.statsYesterday) \cup KeySet(daily.statsWeek) :
          \A i \in 1..Len(daily.analysisData) : daily.analysisData[i].category # cat
    /\ \E i \in 1..Len(daily.analysisData) :
          daily.analysisData[i].category \notin KeySet(daily.statsYesterday)
    /\ \E i \in 1..Len(daily.analysisData) :
          daily.analysisData[i].category \notin KeySet(daily.statsWeek)

-----------------------------------------------------------------------------
(* C3: the rows of a comparison are in non-increasing order of the value   *)
(* of the current period: currentDuration (compareWeeklyStats), the        *)
(* current count (count-only variant), hours (buildDailyAnalysis).         *)

C3_ComparisonSorted ==
    /\ WeeklyDone =>
          \A i \in 1..(Len(weekly.comparison) - 1) :
              ~FLt(weekly.comparison[i].currentDuration,
                   weekly.comparison[i + 1].currentDuration)
    /\ CountDone =>
          \A i \in 1..(Len(weekly.comparison) - 1) :
              weekly.comparison[i].current >= weekly.comparison[i + 1].current
    /\ Analysed =>
          \A i \in 1..(Len(daily.analysisData) - 1) :
              ~FLt(daily.analysisData[i].hours, daily.analysisData[i + 1].hours)

\* a comparison of three categories whose hours all differ and that the
\* sort has reordered
C3_Witness ==
    /\ WeeklyDone
    /\ Len(weekly.comparison) = 3
    /\ FLt(weekly.comparison[2].currentDuration, weekly.comparison[1].currentDuration)
    /\ FLt(weekly.comparison[3].currentDuration, weekly.comparison[2].currentDuration)
    /\ weekly.comparison[1].category # UnionKeys(weekly.thisWeekStats, weekly.lastWeekStats)[1]

-----------------------------------------------------------------------------
(* C4: aggregateWeeklyStats returns, for each category, count = the number *)
(* of data rows (header excluded) whose title yields that category and     *)
(* whose date is inside the window, and duration = the sum of those rows'  *)
(* normalized hours (added in row order); a category with no such row has  *)
(* no entry, and a sheet without such rows gives an empty mapping.  The    *)
(* hours of aggregateDailyEvents are the sum over the events of a category.*)

\* the data rows whose title yields a category and whose date is in the window
C4_RowsIn(range) ==
    {i \in DataRows : /\ TitleMatch(db[i].title).found
                      /\ db[i].date.kind = "date"
                      /\ range.start <= db[i].date.t
                      /\ db[i].date.t <= range.end}

C4_RowsOf(range, cat) == {i \in C4_RowsIn(range) : TitleMatch(db[i].title).cat = cat}

\* the hours of the duration cells of a set of rows, added in row order
RECURSIVE C4_SumHours(_)
C4_SumHours(S) ==
    IF S = {} THEN FZero
    ELSE LET last == CHOOSE i \in S : \A j \in S : j <= i
         IN  FAdd(C4_SumHours(S \ {last}), DurationHours(db[last].dur))

C4_StatsOfWindow(stats, range) ==
    /\ KeySet(stats) = {TitleMatch(db[i].title).cat : i \in C4_RowsIn(range)}
    /\ Len(stats) = Cardinality(KeySet(stats))
    /\ \A k \in 1..Len(stats) :
          /\ stats[k].count = Cardinality(C4_RowsOf(range, stats[k].category))
          /\ stats[k].duration = C4_SumHours(C4_RowsOf(range, stats[k].category))

\* the hours of the events of a category, added in the order of the events
RECURSIVE C4_SumEvents(_, _, _)
C4_SumEvents(events, n, cat) ==
    IF n = 0 THEN FZero
    ELSE IF TitleMatch(events[n].title).found /\ TitleMatch(events[n].title).cat = cat
         THEN FAdd(C4_SumEvents(events, n - 1, cat), DurationHours(events[n].durationSerial))
         ELSE C4_SumEvents(events, n - 1, cat)

C4_StatsOfEvents(stats, events) ==
    /\ KeySet(stats) = {TitleMatch(events[i].title).cat :
                           i \in {j \in 1..Len(events) : TitleMatch(events[j].title).found}}
    /\ Len(stats) = Cardinality(KeySet(stats))
    /\ \A k \in 1..Len(stats) :
          stats[k].hours = C4_SumEvents(events, Len(events), stats[k].category)

-----------------------------------------------------------------------------
(* C5: aggregation is order-independent: for any permutation of the        *)
(* records, aggregateWeeklyStats / aggregateDailyEvents produce the same   *)
(* mapping (same key set, same count and same summed hours per key).       *)

\* the permutations of 1..n
C5_Perms(n) == {p \in [1..n -> 1..n] : \A i, j \in 1..n : p[i] = p[j] => i = j}

\* the sheet with its data rows permuted (the header stays), and a
\* sequence of events permuted
C5_Shuffled(p) == <<db[1]>> \o [k \in 1..(Len(db) - 1) |-> db[1 + p[k]]]

C5_ShuffledEvents(events, p) == [k \in 1..Len(events) |-> events[p[k]]]

C5_Tolerance == <<0, 1, 0, 0>>

C5_Close(x, y) == MagLt(FSub(x, y).mag, C5_Tolerance)

\* two mappings of the weekly report with the same keys and the same count
\* per key, whose hours per key are close
C5_SameWeekly(a, b) ==
    /\ KeySet(a) = KeySet(b)
    /\ \A cat \in KeySet(a) :
          /\ EntryOf(a, cat).count = EntryOf(b, cat).count
          /\ C5_Close(EntryOf(a, cat).duration, EntryOf(b, cat).duration)

C5_SameDaily(a, b) ==
    /\ KeySet(a) = KeySet(b)
    /\ \A cat \in KeySet(a) : C5_Close(EntryOf(a, cat).hours, EntryOf(b, cat).hours)

-----------------------------------------------------------------------------
(* C6: a record is attributed to exactly one category, the text between    *)
(* the first open marker of its title and the next close marker after it   *)
(* (later pairs are ignored); a record whose title has no complete pair is *)
(* attributed to no category and adds nothing to any count or total.       *)

\* the category the sentence attributes a title to
C6_FirstPair(title) ==
    LET opens == {i \in 1..Len(title) : title[i] = OpenMark}
        pairs == {i \in opens : CloseAfter(title, i) # 0}
    IN  IF pairs = {} THEN [found |-> FALSE, cat |-> <<>>]
        ELSE [found |-> TRUE,
              cat   |-> SubSeq(title, MinOf(pairs) + 1, CloseAfter(title, MinOf(pairs)) - 1)]

\* the rows of a window attributed to a category by the first pair
C6_RowsOf(range, cat) ==
    {i \in DataRows : /\ C6_FirstPair(db[i].title).found
                      /\ C6_FirstPair(db[i].title).cat = cat
                      /\ db[i].date.kind = "date"
                      /\ range.start <= db[i].date.t
                      /\ db[i].date.t <= range.end}

C6_Categories == {C6_FirstPair(db[i].title).cat : i \in DataRows}

C6_CountsOf(stats, range) ==
    /\ KeySet(stats) = {cat \in C6_Categories : C6_RowsOf(range, cat) # {}}
    /\ \A cat \in KeySet(stats) :
          EntryOf(stats, cat).count = Cardinality(C6_RowsOf(range, cat))

\* the claim as stated: the counts of a weekly run are those of the rows
\* attributed by their first pair
C6_FirstPairAttribution ==
    WeeklyDone =>
        /\ C6_CountsOf(weekly.thisWeekStats, weekly.thisWeekRange)
        /\ C6_CountsOf(weekly.lastWeekStats, weekly.lastWeekRange)

-----------------------------------------------------------------------------
(* C7: for every reference instant, getWeeklyDateRange(ref, 0) starts at   *)
(* 00:00:00 of the Monday on or before ref's calendar date (at most 6 days *)
(* before it) and ends at 23:59:59.999 of the Sunday six days after that   *)
(* start; so start <= ref <= end, also when ref is a Sunday or a Monday.   *)

C7_CurrentWeek ==
    (WeeklyDone \/ CountDone) =>
        LET start == weekly.thisWeekRange.start
            end   == weekly.thisWeekRange.end
        IN  /\ start % DayMs = 0
            /\ (start \div DayMs) % 7 = 0
            /\ (now \div DayMs) - (start \div DayMs) \in 0..6
            /\ end = start + 6 * DayMs + ((23 * 60 + 59) * 60 + 59) * 1000 + 999
            /\ start <= now
            /\ now <= end

\* a run at the last instant of a Sunday: the reference is the window's end
C7_Witness ==
    /\ WeeklyDone
    /\ (now \div DayMs) % 7 = 6
    /\ now = weekly.thisWeekRange.end
    /\ now - weekly.thisWeekRange.start > 6 * DayMs

-----------------------------------------------------------------------------
(* C8: for every reference instant, the windows of offset -1 and 0 of one  *)
(* weekly run are disjoint and adjacent: the previous window starts        *)
(* exactly 7 calendar days before the current one and its end              *)
(* (23:59:59.999) is the last instant before the current window's start;   *)
(* no timestamp is in both windows and none in a gap between them.         *)

C8_WindowsAdjacent ==
    (WeeklyDone \/ CountDone) =>
        LET this == weekly.thisWeekRange
            last == weekly.lastWeekRange
        IN  /\ last.start + 7 * DayMs = this.start
            /\ last.end + 1 = this.start
            /\ last.end % DayMs = DayMs - 1
            /\ last.start <= last.end
            /\ \A t \in (last.end - 1)..(this.start + 1) :
                  /\ ~(last.start <= t /\ t <= last.end /\ this.start <= t /\ t <= this.end)
                  /\ (last.start <= t /\ t <= last.end) \/ (this.start <= t /\ t <= this.end)

\* a run at the first instant of a Monday: the reference is the instant
\* after the end of the previous window
C8_Witness ==
    /\ WeeklyDone
    /\ now = weekly.thisWeekRange.start
    /\ now = weekly.lastWeekRange.end + 1
    /\ weekly.lastWeekRange.start >= 0

-----------------------------------------------------------------------------
(* C9: window membership is inclusive at both bounds: a categorized record *)
(* dated exactly at start or exactly at end is counted, one dated 1 ms     *)
(* before start or 1 ms after end is not (aggregateWeeklyStats, and        *)
(* aggregateCategoryStats of the count-only report).                       *)

\* the sheet without its row i, and the count of a category
C9_Without(i) == SubSeq(db, 1, i - 1) \o SubSeq(db, i + 1, Len(db))

C9_CountOf(stats, cat) == IF cat \in KeySet(stats) THEN EntryOf(stats, cat).count ELSE 0

\* a row is counted if the count of its category is one less without it,
\* and not counted if the statistics are the same without it
C9_WeeklyBounds(stats, range) ==
    \A i \in DataRows :
        (TitleMatch(db[i].title).found /\ db[i].date.kind = "date") =>
            LET t       == db[i].date.t
                cat     == TitleMatch(db[i].title).cat
                without == aggregateWeeklyStats(C9_Without(i), range.start, range.end)
            IN  /\ (t = range.start \/ t = range.end) =>
                      C9_CountOf(stats, cat) = C9_CountOf(without, cat) + 1
                /\ (t = range.start - 1 \/ t = range.end + 1) => stats = without

C9_CategoryBounds(stats, range) ==
    \A i \in DataRows :
        (Trim(db[i].cat) # <<>> /\ db[i].date.kind = "date") =>
            LET t       == db[i].date.t
                cat     == Trim(db[i].cat)
                without == aggregateCategoryStats(C9_Without(i), range.start, range.end)
            IN  /\ (t = range.start \/ t = range.end) =>
                      C9_CountOf(stats, cat) = C9_CountOf(without, cat) + 1
                /\ (t = range.start - 1 \/ t = range.end + 1) => stats = without

C9_BoundsInclusive ==
    /\ WeeklyDone =>
          /\ C9_WeeklyBounds(weekly.thisWeekStats, weekly.thisWeekRange)
          /\ C9_WeeklyBounds(weekly.lastWeekStats, weekly.lastWeekRange)
    /\ CountDone =>
          /\ C9_CategoryBounds(weekly.thisWeekStats, weekly.thisWeekRange)
          /\ C9_CategoryBounds(weekly.lastWeekStats, weekly.lastWeekRange)

\* a sheet with categorized rows at the end of this week, 1 ms after it
\* and 1 ms before its start
C9_Witness ==
    /\ WeeklyDone
    /\ \E i, j, k \in DataRows :
          /\ TitleMatch(db[i].title).found /\ db[i].date.t = weekly.thisWeekRange.end
          /\ TitleMatch(db[j].title).found /\ db[j].date.t = weekly.thisWeekRange.end + 1
          /\ TitleMatch(db[k].title).found /\ db[k].date.t = weekly.thisWeekRange.start - 1
    /\ Len(weekly.thisWeekStats) = 1
    /\ weekly.thisWeekStats[1].count = 1

-----------------------------------------------------------------------------
(* C10: in dailyLineNotify the current window is the whole of yesterday    *)
(* and the baseline window the whole of the seven calendar days before     *)
(* yesterday, ending at 23:59:59.999 of the day before yesterday; every    *)
(* record with a valid timestamp in those eight days is placed in exactly  *)
(* one of the two buckets, whatever its time of day.                       *)

\* the data rows with a valid timestamp in the eight days that end with
\* yesterday
C10_RowsOfEightDays ==
    {i \in DataRows : /\ db[i].date.kind = "date"
                      /\ daily.yesterday - 7 * DayMs <= db[i].date.t
                      /\ db[i].date.t < daily.yesterday + DayMs}

\* the claim as stated
C10_ExactDayWindows ==
    (pc = "daily" /\ daily.exit # "noRows") =>
        /\ daily.yesterday = (now \div DayMs - 1) * DayMs
        /\ daily.rangeStart = daily.yesterday - 7 * DayMs
        /\ daily.weekEnd = daily.yesterday - 1
        /\ Len(daily.yesterdayEvents) + Len(daily.pastWeekEvents)
              = Cardinality(C10_RowsOfEightDays)

-----------------------------------------------------------------------------
(* Vocabulary of the properties about executions *)

Weekly(p) == procs[p].fn = "sendWeeklyReport"

Daily(p) == procs[p].fn = "dailyLineNotify"

-----------------------------------------------------------------------------
(* C11: a malformed record (a date cell that does not parse, or a row of   *)
(* fewer than 6 columns) is excluded from the statistics of every window   *)
(* and from the chart data: it is never partially counted and never makes  *)
(* the run raise.  Every result of a run is the one the same sheet gives   *)
(* with its malformed rows removed.                                        *)

C11_Malformed(row) == RowLength(row) < 6 \/ row.date.kind # "date"

\* the sheet without its malformed data rows
C11_WellFormed(sheet) ==
    <<sheet[1]>> \o SelectSeq(Tail(sheet), LAMBDA row : ~C11_Malformed(row))

C11_WeeklyExcludes(r) ==
    LET clean == C11_WellFormed(db)
    IN  /\ Len(r.reads) >= 1 =>
              r.thisWeekStats = AggregateStats(r.variant, clean, r.thisWeekRange.start,
                                               r.thisWeekRange.end)
        /\ Len(r.reads) >= 2 =>
              r.lastWeekStats = AggregateStats(r.variant, clean, r.lastWeekRange.start,
                                               r.lastWeekRange.end)
        /\ r.chartData.kind # "none" =>
              r.chartData = ChartDataOf(r.variant, clean, r.thisWeekRange, r.comparison)

C11_DailyExcludes(r) ==
    LET clean == dailyLineNotifyLocals(C11_WellFormed(db), r.now)
    IN  r.daily.exit \in {"noYesterday", "analysed"} =>
           /\ r.daily.yesterdayEvents = clean.yesterdayEvents
           /\ r.daily.pastWeekEvents = clean.pastWeekEvents
           /\ r.daily.statsYesterday = clean.statsYesterday
           /\ r.daily.statsWeek = clean.statsWeek
           /\ r.daily.analysisData = clean.analysisData

C11_MalformedExcluded ==
    \A p \in Procs :
        /\ procs[p].result # "raised"
        /\ Weekly(p) => C11_WeeklyExcludes(procs[p])
        /\ Daily(p) => C11_DailyExcludes(procs[p])

\* a report sent from a sheet with a categorized row whose date does not
\* parse beside a row of the same category that is counted
C11_Witness ==
    \E p \in Procs :
        /\ Weekly(p)
        /\ procs[p].variant = "hours"
        /\ procs[p].result = "returned"
        /\ Len(procs[p].mail) = 1
        /\ \E i \in DataRows : RowLength(db[i]) = 6 /\ db[i].date.kind # "date"
                                 /\ TitleMatch(db[i].title).found
        /\ Len(procs[p].thisWeekStats) = 1
        /\ procs[p].thisWeekStats[1].count = 1
        /\ procs[p].chartData.kind = "blob"

-----------------------------------------------------------------------------
(* C12: the normalization of a duration is total and follows a three-way   *)
(* rule: a time of day gives h + m/60 (+ s/3600 in the variant with        *)
(* seconds), a number gives the number times 24, anything else gives       *)
(* exactly 0; it never raises.  The hours of every category of a run are   *)
(* the sum, in row order, of the hours this rule gives to its rows.        *)

C12_Hours(variant, cell) ==
    LET minutes == FAdd(FromInt(cell.h), FDivSmall(FromInt(cell.mi), 60))
    IN  CASE cell.kind = "time" /\ variant = "seconds" ->
                 FAdd(minutes, FDiv3600(FromInt(cell.s)))
          [] cell.kind = "time" /\ variant # "seconds" -> minutes
          [] cell.kind = "number" -> FMulSmall(cell.num, 24)
          [] OTHER -> FZero

\* the hours of the rule for the rows of a set, added in row order
RECURSIVE C12_Sum(_, _)
C12_Sum(variant, S) ==
    IF S = {} THEN FZero
    ELSE LET last == CHOOSE i \in S : \A j \in S : j <= i
         IN  FAdd(C12_Sum(variant, S \ {last}), C12_Hours(variant, db[last].dur))

\* the well-formed rows of a category in a window
C12_RowsOf(range, cat) == {i \in C4_RowsOf(range, cat) : RowLength(db[i]) >= 6}

C12_WeeklyHours(r) ==
    /\ Len(r.reads) >= 1 /\ r.variant # "count" =>
          \A k \in 1..Len(r.thisWeekStats) :
              r.thisWeekStats[k].duration
                  = C12_Sum(r.variant, C12_RowsOf(r.thisWeekRange, r.thisWeekStats[k].category))
    /\ Len(r.reads) >= 2 /\ r.variant # "count" =>
          \A k \in 1..Len(r.lastWeekStats) :
              r.lastWeekStats[k].duration
                  = C12_Sum(r.variant, C12_RowsOf(r.lastWeekRange, r.lastWeekStats[k].category))

\* the events of a bucket are rows of the sheet in row order
RECURSIVE C12_SumEvents(_, _, _)
C12_SumEvents(events, n, cat) ==
    IF n = 0 THEN FZero
    ELSE IF TitleMatch(events[n].title).found /\ TitleMatch(events[n].title).cat = cat
         THEN FAdd(C12_SumEvents(events, n - 1, cat), C12_Hours("daily", events[n].durationSerial))
         ELSE C12_SumEvents(events, n - 1, cat)

C12_DailyHours(r) ==
    r.daily.exit = "analysed" =>
        /\ \A k \in 1..Len(r.daily.statsYesterday) :
              r.daily.statsYesterday[k].hours
                  = C12_SumEvents(r.daily.yesterdayEvents, Len(r.daily.yesterdayEvents),
                                  r.daily.statsYesterday[k].category)
        /\ \A k \in 1..Len(r.daily.statsWeek) :
              r.daily.statsWeek[k].hours
                  = C12_SumEvents(r.daily.pastWeekEvents, Len(r.daily.pastWeekEvents),
                                  r.daily.statsWeek[k].category)

C12_NormalizationRule ==
    \A p \in Procs :
        /\ procs[p].result # "raised"
        /\ Weekly(p) => C12_WeeklyHours(procs[p])
        /\ Daily(p) => C12_DailyHours(procs[p])

\* the variant with seconds has added a time of day with seconds and a text
\* for one category: the hours are those of the time of day, above 20/60
C12_Witness ==
    \E p \in Procs :
        /\ Weekly(p)
        /\ procs[p].variant = "seconds"
        /\ Len(procs[p].reads) >= 2
        /\ \E i, j \in DataRows : /\ db[i].dur.kind = "time" /\ db[i].dur.s > 0
                                  /\ db[j].dur.kind = "text"
                                  /\ db[j].date.kind = "date" /\ RowLength(db[j]) = 6
        /\ Len(procs[p].thisWeekStats) = 1
        /\ procs[p].thisWeekStats[1].count = 2
        /\ FLt(FDivSmall(FromInt(20), 60), procs[p].thisWeekStats[1].duration)
        /\ FLt(procs[p].thisWeekStats[1].duration, FDivSmall(FromInt(21), 60))

-----------------------------------------------------------------------------
(* C13: the normalized duration is non-negative for every time-of-day or   *)
(* numeric raw duration, so the hours total of every category is at least  *)
(* 0.                                                                      *)

\* the claim as stated: no total of hours of a run is below 0
C13_HoursNonNegative ==
    \A p \in Procs :
        /\ Weekly(p) /\ procs[p].variant # "count" =>
              /\ \A k \in 1..Len(procs[p].thisWeekStats) :
                    ~FNegative(procs[p].thisWeekStats[k].duration)
              /\ \A k \in 1..Len(procs[p].lastWeekStats) :
                    ~FNegative(procs[p].lastWeekStats[k].duration)
        /\ Daily(p) =>
              /\ \A k \in 1..Len(procs[p].daily.statsYesterday) :
                    ~FNegative(procs[p].daily.statsYesterday[k].hours)
              /\ \A k \in 1..Len(procs[p].daily.statsWeek) :
                    ~FNegative(procs[p].daily.statsWeek[k].hours)

-----------------------------------------------------------------------------
(* C14: in one run of the report the 'DB' sheet is read exactly once: the  *)
(* statistics of both windows and the data of the chart come from a single *)
(* snapshot, so that the rows appended during the run are reflected in all *)
(* of them or in none.                                                     *)

\* the sheet as it was when it had n rows (rows are only ever appended)
C14_Snapshot(n) == SubSeq(db, 1, n)

\* the results of the execution r are those of the sheet of n rows
C14_AllFrom(r, n) ==
    /\ r.thisWeekStats = AggregateStats(r.variant, C14_Snapshot(n),
                                        r.thisWeekRange.start, r.thisWeekRange.end)
    /\ r.lastWeekStats = AggregateStats(r.variant, C14_Snapshot(n),
                                        r.lastWeekRange.start, r.lastWeekRange.end)
    /\ r.chartData = ChartDataOf(r.variant, C14_Snapshot(n), r.thisWeekRange, r.comparison)

C14_ReadOnce ==
    \A p \in Procs : Weekly(p) => Len(procs[p].reads) <= 1

C14_OneSnapshot ==
    \A p \in Procs :
        Weekly(p) /\ procs[p].chartData.kind # "none" =>
            \E n \in 1..Len(db) : C14_AllFrom(procs[p], n)

\* the claim as stated
C14_SingleSnapshot == C14_ReadOnce /\ C14_OneSnapshot

-----------------------------------------------------------------------------
(* C15: when the commentary service fails (the HTTP call throws, the       *)
(* response cannot be parsed or has no candidate text) the commentary step *)
(* returns a fallback string instead of raising, and the run goes on to    *)
(* deliver the report.                                                     *)

\* the execution has asked the commentary service
C15_Asked(r) == \E k \in 1..Len(r.requests) : r.requests[k] = "generateContent"

\* the claim as stated: the commentary step of an execution that has asked
\* the service has not raised; it has left a text or the fallback string,
\* and the execution is at its send or beyond
C15_CommentaryFallback ==
    \A p \in Procs :
        (Weekly(p) \/ Daily(p)) /\ C15_Asked(procs[p]) =>
            /\ procs[p].error # "commentary"
            /\ procs[p].commentary \in {"text", "fallback"}

-----------------------------------------------------------------------------
(* C16: when the final send fails (GmailApp.sendEmail raises; the LINE     *)
(* broadcast raises or is rejected) the failure is propagated to the       *)
(* caller of sendWeeklyReport or dailyLineNotify, and the send is not      *)
(* retried.                                                                *)

\* the execution has called its final send and nothing was delivered
C16_MailFailed(r) == r.pc = "done" /\ r.commentary # "none" /\ r.mail = <<>>

C16_BroadcastFailed(r) ==
    /\ r.pc = "done"
    /\ \E k \in 1..Len(r.requests) : r.requests[k] = "broadcast"
    /\ r.line = <<>>

\* the number of broadcast requests of an execution
C16_Broadcasts(r) == Cardinality({k \in 1..Len(r.requests) : r.requests[k] = "broadcast"})

\* the claim as stated
C16_SendFailurePropagated ==
    \A p \in Procs :
        /\ Weekly(p) /\ C16_MailFailed(procs[p]) =>
              procs[p].result = "raised" /\ procs[p].error = "send"
        /\ Daily(p) /\ C16_BroadcastFailed(procs[p]) =>
              procs[p].result = "raised" /\ C16_Broadcasts(procs[p]) = 1

-----------------------------------------------------------------------------
(* C17: when the sheet 'DB' does not exist the run aborts before any       *)
(* aggregation: it reads nothing, asks the commentary service nothing,     *)
(* creates no temporary sheet and sends no email and no LINE message; the  *)
(* error is logged, and sendWeeklyReport raises it again.                  *)

C17_AbortsWithoutSheet ==
    \A p \in Procs :
        (Weekly(p) \/ Daily(p)) /\ DbName \notin env.sheets /\ procs[p].pc # "getSheet" =>
            /\ procs[p].pc = "done"
            /\ procs[p].reads = <<>>
            /\ procs[p].thisWeekStats = <<>> /\ procs[p].lastWeekStats = <<>>
            /\ procs[p].daily = NoDaily
            /\ procs[p].requests = <<>>
            /\ procs[p].tmp = NoName /\ env.sheets = {}
            /\ procs[p].mail = <<>> /\ procs[p].line = <<>>
            /\ Len(procs[p].log) = 1
            /\ Weekly(p) => procs[p].result = "raised" /\ procs[p].error = "getSheet"
            /\ Daily(p) => procs[p].result = "returned"

\* an execution of sendWeeklyReport that has raised for want of the sheet
C17_Witness ==
    \E p \in Procs :
        /\ Weekly(p)
        /\ DbName \notin env.sheets
        /\ procs[p].result = "raised"
        /\ procs[p].log = <<"Weekly Report Failed">>

-----------------------------------------------------------------------------
(* C18: when the window of the current week has no categorized record,     *)
(* the generation of the chart yields null, and sendWeeklyReport still     *)
(* completes and sends the email, without inline image and without         *)
(* attachment.                                                             *)

\* the claim as stated, for the two copies of src/weeklyReport.js: with no
\* categorized row of the current week in the sheet, the chart of an
\* execution past its chart step is null, the step has not raised, and the
\* mail sent has no image
C18_NoChartNoImage ==
    \A p \in Procs :
        /\ Weekly(p)
        /\ procs[p].variant \in {"hours", "seconds"}
        /\ procs[p].chartData.kind # "none"
        /\ C4_RowsIn(procs[p].thisWeekRange) = {}
        => /\ procs[p].chart.kind = "null"
           /\ procs[p].error # "chart"
           /\ \A k \in 1..Len(procs[p].mail) :
                 ~procs[p].mail[k].inlineImage /\ ~procs[p].mail[k].attachment

-----------------------------------------------------------------------------
(* C19: a missing configuration value only disables its feature.  Without  *)
(* GEMINI_API_KEY no request is made to the commentary service, the        *)
(* commentary is the placeholder and the report is still delivered;        *)
(* without the LINE token sendLineMessage makes no request and returns     *)
(* normally; without a calendar ID addCalendarDayEvents appends no row and *)
(* does not raise.                                                         *)

C19_WithoutKey(r) ==
    /\ ~C15_Asked(r)
    /\ r.error # "commentary"
    /\ r.commentary \in {"none", "skipped"}
    /\ r.pc = "send" => r.commentary = "skipped"
    /\ \A k \in 1..Len(r.mail) : r.mail[k].commentary = "skipped"
    /\ \A k \in 1..Len(r.line) : r.line[k].commentary = "skipped"

C19_WithoutToken(r) ==
    /\ C16_Broadcasts(r) = 0
    /\ r.line = <<>>
    /\ r.result # "raised"
    /\ r.pc = "done" /\ r.commentary # "none" =>
          r.result = "returned" /\ r.log[Len(r.log)] = "line_personal_channel_token missing"

C19_WithoutCalendar(r) ==
    /\ r.requests = <<>>
    /\ r.appended = 0
    /\ r.result = "returned"
    /\ db \in RunSheets

C19_MissingConfigDisables ==
    \A p \in Procs :
        /\ GeminiKey \notin env.props /\ (Weekly(p) \/ Daily(p)) => C19_WithoutKey(procs[p])
        /\ LineToken \notin env.props /\ Daily(p) => C19_WithoutToken(procs[p])
        /\ (env.props \cap CalendarIds = {} /\ DbName \in env.sheets
               /\ procs[p].fn = "addCalendarDayEvents") => C19_WithoutCalendar(procs[p])

\* with no property set: dailyLineNotify has analysed yesterday, skipped the
\* commentary and the broadcast and returned, and addCalendarDayEvents has
\* returned without a row appended
C19_Witness ==
    /\ env.props = {}
    /\ Daily(1)
    /\ procs[1].daily.exit = "analysed"
    /\ procs[1].commentary = "skipped"
    /\ procs[1].pc = "done"
    /\ procs[1].result = "returned"
    /\ procs[1].requests = <<>>
    /\ procs[2].fn = "addCalendarDayEvents"
    /\ procs[2].result = "returned"
    /\ procs[2].appended = 0

-----------------------------------------------------------------------------
(* C20: two overlapping runs of sendWeeklyReport each complete with the    *)
(* outcome they have alone: neither fails, and neither loses its chart,    *)
(* because of the temporary chart sheet of the other.                      *)

\* the mail of an execution that runs alone on the sheet, with services
\* that answer
C20_MailAlone(r) ==
    LET chart == ChartDataOf(r.variant, db, r.thisWeekRange, r.comparison)
    IN  [commentary |-> "text",
         comparison |-> CompareStats(r.variant,
                            AggregateStats(r.variant, db, r.thisWeekRange.start,
                                           r.thisWeekRange.end),
                            AggregateStats(r.variant, db, r.lastWeekRange.start,
                                           r.lastWeekRange.end)),
         inlineImage |-> TRUE, attachment |-> TRUE, chart |-> chart]

\* the claim as stated
C20_OverlapSameOutcome ==
    \A p \in Procs :
        Weekly(p) /\ procs[p].pc = "done" =>
            /\ procs[p].result = "returned"
            /\ procs[p].mail = <<C20_MailAlone(procs[p])>>

-----------------------------------------------------------------------------
(* C21: addCalendarDayEvents only adds events that are not yet in the      *)
(* sheet: after any sequence of runs, from a sheet without duplicates, no  *)
(* two rows of the sheet have the same title and the same start time; a    *)
(* second run for the same day with unchanged calendars appends nothing.   *)

\* the rows that record an event: their column B holds a start time
C21_EventRows == {i \in DataRows : "start" \in DOMAIN db[i]}

\* the claim as stated
C21_NoDuplicateRows ==
    \A i, j \in C21_EventRows :
        db[i].title = db[j].title /\ db[i].start = db[j].start => i = j

-----------------------------------------------------------------------------
(* C22: the installation of a trigger is idempotent and free of            *)
(* duplicates: after createWeeklyTrigger (createDailyLineTrigger) returns, *)
(* exactly one project trigger has the handler 'sendWeeklyReport'          *)
(* ('dailyLineNotify'), however many there were before and however many    *)
(* times the function is called, and the triggers of every other handler   *)
(* are left unchanged.                                                     *)

\* the triggers of a handler, and those of the other handlers, in order
C22_TriggersOf(triggers, handler) == SelectSeq(triggers, LAMBDA t : t.handler = handler)

C22_OtherTriggers(triggers, handler) == SelectSeq(triggers, LAMBDA t : t.handler # handler)

\* the handler a function installs a trigger for
C22_HandlerOf(fn) ==
    IF fn = "createWeeklyTrigger" THEN "sendWeeklyReport" ELSE "dailyLineNotify"

\* a step in which execution p calls and leaves one of the two functions
C22_Installs(p) ==
    /\ procs[p].fn = "none"
    /\ procs'[p].fn \in {"createWeeklyTrigger", "createDailyLineTrigger"}

C22_OneTriggerPerHandler ==
    [][\A p \in Procs :
          C22_Installs(p) =>
              /\ Len(C22_TriggersOf(env'.triggers, C22_HandlerOf(procs'[p].fn))) = 1
              /\ C22_OtherTriggers(env'.triggers, C22_HandlerOf(procs'[p].fn))
                    = C22_OtherTriggers(env.triggers, C22_HandlerOf(procs'[p].fn))
              /\ procs'[p].result = "returned"]_vars

\* createWeeklyTrigger has returned after deleting two triggers, beside a
\* trigger of another handler: one trigger of sendWeeklyReport is left
C22_Witness ==
    \E p \in Procs :
        /\ procs[p].fn = "createWeeklyTrigger"
        /\ procs[p].requests = <<"deleteTrigger", "deleteTrigger", "newTrigger">>
        /\ Len(C22_TriggersOf(env.triggers, "sendWeeklyReport")) = 1
        /\ Len(C22_OtherTriggers(env.triggers, "sendWeeklyReport")) >= 1

-----------------------------------------------------------------------------
(* C23: a weekly report run leaves the spreadsheet as it found it: on      *)
(* every exit path of the chart step (chart built, no data, exception      *)
(* while building) the temporary sheet the run inserted is deleted, so     *)
(* when sendWeeklyReport ends, normally or with an error, the sheets are   *)
(* those of before the run, and no step of the run changes a row of the    *)
(* sheet 'DB'.                                                             *)

\* the sheets of the spreadsheet other than the temporary sheet that the
\* execution r holds
C23_OtherSheets(sheets, r) == sheets \ {r.tmp}

\* a step of the execution p of sendWeeklyReport, its start included
C23_WeeklyStep(p) ==
    /\ procs'[p].fn = "sendWeeklyReport"
    /\ procs'[p] # procs[p]

C23_SpreadsheetLeftAsFound ==
    [][\A p \in Procs :
          C23_WeeklyStep(p) =>
              /\ db' = db
              /\ C23_OtherSheets(env'.sheets, procs'[p]) = C23_OtherSheets(env.sheets, procs[p])
              /\ procs'[p].pc \in {"commentary", "send", "done"} => procs'[p].tmp = NoName
              /\ procs'[p].tmp # NoName => procs'[p].tmp \in env'.sheets]_vars

\* the chart service threw while the second copy built the chart: the run
\* has ended with that error, and the spreadsheet holds the sheet 'DB' alone
C23_Witness ==
    \E p \in Procs :
        /\ Weekly(p)
        /\ procs[p].variant = "seconds"
        /\ procs[p].pc = "done"
        /\ procs[p].result = "raised"
        /\ procs[p].error = "chart"
        /\ env.sheets = {DbName}

-----------------------------------------------------------------------------
(* C24: in every run of dailyLineNotify at most one LINE broadcast is      *)
(* sent, and it is sent only after the comparison and the commentary step  *)
(* have finished; when the sheet 'DB' has no data row, or no row dated     *)
(* yesterday, the run ends without a call of the commentary service and    *)
(* without a message.                                                      *)

\* the row is dated the day before the instant n
C24_DatedYesterday(row, n) ==
    /\ RowLength(row) >= 6
    /\ row.date.kind = "date"
    /\ DayOf(row.date.t) = DayOf(n) - 1

\* the number of requests of a kind that the execution r has made
C24_Requests(r, kind) == Cardinality({k \in 1..Len(r.requests) : r.requests[k] = kind})

\* the step in which the execution p reads the sheet
C24_ReadsSheet(p) ==
    /\ Daily(p)
    /\ procs[p].pc = "extract"
    /\ procs'[p] # procs[p]

\* the step in which the execution p requests the broadcast
C24_Broadcasts(p) ==
    /\ procs'[p].fn = "dailyLineNotify"
    /\ C24_Requests(procs'[p], "broadcast") > C24_Requests(procs[p], "broadcast")

C24_OneBroadcastAfterCommentary ==
    [][\A p \in Procs :
          /\ procs'[p].fn = "dailyLineNotify" =>
                /\ C24_Requests(procs'[p], "broadcast") <= 1
                /\ Len(procs'[p].line) <= C24_Requests(procs'[p], "broadcast")
          /\ C24_Broadcasts(p) =>
                /\ procs[p].pc = "send"
                /\ procs[p].daily.exit = "analysed"
                /\ procs[p].commentary \in {"skipped", "text", "fallback"}
                /\ procs'[p].requests = Append(procs[p].requests, "broadcast")
                /\ procs'[p].pc = "done"
          /\ procs[p].pc = "insight" /\ C24_Requests(procs'[p], "generateContent") > 0 =>
                C24_Requests(procs'[p], "broadcast") = 0
          /\ (C24_ReadsSheet(p)
                /\ (Len(db) <= 1 \/ \A i \in DataRows : ~C24_DatedYesterday(db[i], procs[p].now))) =>
                /\ procs'[p].pc = "done"
                /\ procs'[p].result = "returned"
                /\ procs'[p].requests = << >>
                /\ procs'[p].line = << >>
                /\ procs'[p].commentary = "none"
          /\ Daily(p) /\ procs[p].pc = "done" /\ procs'[p].fn = "dailyLineNotify" =>
                procs'[p] = procs[p]]_vars

\* a run has asked the commentary service and then sent its one message,
\* which was delivered
C24_Witness ==
    \E p \in Procs :
        /\ Daily(p)
        /\ procs[p].pc = "done"
        /\ procs[p].requests = <<"generateContent", "broadcast">>
        /\ Len(procs[p].line) = 1

\* a run over a sheet with data rows, none of them dated yesterday, has
\* ended without a request and without a message
C24_WitnessNoYesterday ==
    \E p \in Procs :
        /\ Daily(p)
        /\ procs[p].pc = "done"
        /\ procs[p].daily.exit = "noYesterday"
        /\ procs[p].reads # << >>
        /\ procs[p].reads[1] > 1
        /\ procs[p].requests = << >>
        /\ procs[p].line = << >>

=============================================================================
